---- MODULE Spec2Model ----
(***************************************************************************)
(* A model of hypebot's esports aggregation engine                         *)
(* (src/hypebot/plugins/league/esports_lib.py): the tournament providers   *)
(* (GrumbleProvider, RitoProvider), the engine (EsportsLib) that reloads   *)
(* them, polls them for match updates and answers read queries, and the    *)
(* pure computations the providers run on upstream data.                   *)
(*                                                                         *)
(* Objects are identified by the provider that built them and the number   *)
(* of the LoadData call that built them: <<p, g>> is the match (bracket,   *)
(* team) object that the g-th LoadData of provider p created.  A fresh     *)
(* LoadData always allocates fresh protobuf objects, so two objects are    *)
(* the same Python object iff their handles are equal.                     *)
(***************************************************************************)
EXTENDS Integers, Sequences, FiniteSets, TLC

\* ------------------------------------------------------------------ bounds
MaxReloads == 1        \* ReloadData calls made by the command thread
MaxPolls == 1          \* UpdateEsportsMatches calls made by the poll thread
MaxQueries == 1        \* read queries made by the reader thread
MaxCallbacks == 2      \* callbacks ever registered
MaxMatches == 2        \* raw matches in the bracket of a Rito league descriptor
MaxSchedule == 2       \* matches in a Grumble bracket's weekly lists
MaxRecords == 2        \* rosters (and highlanderRecords) of a Rito bracket
MaxScore == 2          \* largest 'score' of a Rito record
MaxListed == 2         \* matches in the engine's schedule when a query walks it
MaxLimit == 2          \* largest num_games a query is called with
MaxTime == 3           \* latest hour a timestamp or the clock shows
MaxChamps == 6         \* champions with pick/ban data
MaxPlayers == 1        \* players in the answer of a Grumble team fetch
MaxTournaments == 2    \* records in a league's highlanderTournaments
MaxGames == 2          \* games in a match

\* ------------------------------------------------------------------ engine: static structure

\* EsportsLib.__init__: self._providers, reduced to one provider of each class.
ProviderOrder == <<"D1", "NA">>

Providers == {ProviderOrder[i] : i \in 1..Len(ProviderOrder)}

\* The class of a provider.
Kind(p) == IF p = "D1" THEN "grumble" ELSE "rito"

\* The keys a provider's _brackets dict can hold.  Grumble: 'season' and
\* 'playoffs'; Rito: the bracket names of the upstream tournament (one here).
BracketNames(p) == IF Kind(p) = "grumble" THEN {"season", "playoffs"} ELSE {"regular"}

\* Upstream holds one match per league; it sits in this bracket.
MatchBracket(p) == IF Kind(p) = "grumble" THEN "season" ELSE "regular"

\* The endpoints LoadData fetches, per provider class.
LoadEndpoints(p) ==
  IF Kind(p) = "grumble" THEN {"season", "playoffs", "team"}
  ELSE {"leagues", "teams", "matchDetails", "scheduleItems"}

\* The endpoints UpdateMatches fetches, per provider class.
UpdateEndpoints(p) ==
  IF Kind(p) = "grumble" THEN {"season", "playoffs"} ELSE {"leagues"}

\* The threads that run LoadEsports: the executor job submitted by __init__
\* and the caller of ReloadData.
Reloaders == {"init", "cmd"}

MaxGen == 1 + MaxReloads

Gens == 1..MaxGen

Handles == Providers \X Gens

NoBracket == [gen |-> 0, schedule |-> {}]

\* num_games default of GetSchedule / GetResults.
NumGamesDefault == 5

VARIABLES
  upstream,    \* [p -> winner of the league's match upstream: "" or a team id]
  prov,        \* [p -> the provider object: lock, _teams, _brackets, _matches, _rosters]
  winner,      \* [handle -> the winner field of that match object]
  engine,      \* the engine's published fields, and the number of swaps so far
  callbacks,   \* self._callbacks
  reload,      \* [t -> the LoadEsports call of thread t]
  poll,        \* the UpdateEsportsMatches call of the poll thread
  reader,      \* the read query of the reader thread
  hist,        \* history: what each call saw when it started, what polls set
  calc         \* a provider computation on upstream data, taken on its own

vars == <<upstream, prov, winner, engine, callbacks, reload, poll, reader, hist, calc>>

\* The variables of the engine and its threads.
engineVars == <<upstream, prov, winner, engine, callbacks, reload, poll, reader, hist>>

\* ------------------------------------------------------------------ helpers

Last(p) == p = ProviderOrder[Len(ProviderOrder)]

RECURSIVE Reverse(_)
Reverse(s) == IF s = <<>> THEN <<>> ELSE Append(Reverse(Tail(s)), Head(s))

Range(s) == {s[i] : i \in 1..Len(s)}

\* A lock that is never waited for.
CanAcquire_Always(p, t) == TRUE

\* threading.RLock: free, or already held by the same thread.
CanAcquire(p, t) == prov[p].lock \in {"free", t}

\* The part of a provider LoadData and UpdateMatches own.
ProviderState(p) ==
  [teams |-> prov[p].teams, brackets |-> prov[p].brackets,
   matches |-> prov[p].matches, rosters |-> prov[p].rosters,
   winners |-> [g \in Gens |-> winner[<<p, g>>]]]

\* ------------------------------------------------------------------ Init

\* RitoProvider.__init__ / GrumbleProvider.__init__: empty dicts, a free lock.
ProviderInit(p) ==
  [lock |-> "free", gen |-> 0, teams |-> 0, matches |-> 0, rosters |-> 0,
   brackets |-> [n \in BracketNames(p) |-> NoBracket]]

EmptyTmp == [teams |-> {}, matches |-> {}, brackets |-> {}, leagues |-> {}, stats |-> {}]

\* EsportsLib.__init__: empty fields, no callbacks, LoadEsports submitted.
EngineInit ==
  [teams |-> {}, schedule |-> <<>>, matches |-> {}, brackets |-> {},
   leagues |-> {}, stats |-> {}, epoch |-> 0]

ReloadInit == [pc |-> "idle", idx |-> 1, tmp |-> EmptyTmp, runs |-> 0, err |-> "",
               cbLog |-> <<>>, cbSeen |-> 0]

PollInit == [pc |-> "idle", idx |-> 1, updated |-> <<>>, runs |-> 0, err |-> ""]

ReaderInit == [pc |-> "idle", kind |-> "", idx |-> 1, league |-> "", schedule |-> <<>>,
               results |-> <<>>, epochs |-> {}, snap |-> {}, used |-> {}, must |-> {},
               runs |-> 0, err |-> ""]

EngineVarsInit ==
  /\ upstream = [p \in Providers |-> ""]
  /\ prov = [p \in Providers |-> ProviderInit(p)]
  /\ winner = [h \in Handles |-> ""]
  /\ engine = EngineInit
  /\ callbacks = <<>>
  /\ reload = [t \in Reloaders |-> ReloadInit]
  /\ poll = PollInit
  /\ reader = ReaderInit
  /\ hist = [retired |-> {}, pollSet |-> {},
             prev |-> [p \in Providers |->
                         [teams |-> 0, brackets |-> [n \in BracketNames(p) |-> NoBracket],
                          matches |-> 0, rosters |-> 0, winners |-> [g \in Gens |-> ""]]],
             failed |-> [p \in Providers |-> ""]]

\* The engine as constructed; no provider computation is singled out.
Init ==
  /\ EngineVarsInit
  /\ calc = [op |-> "none"]

\* ------------------------------------------------------------------ environment

\* Upstream decides the league's match: team "A" wins.
UpstreamDecide(p) ==
  /\ upstream[p] = ""
  /\ upstream' = [upstream EXCEPT ![p] = "A"]
  /\ UNCHANGED <<calc, prov, winner, engine, callbacks, reload, poll, reader, hist>>

\* ------------------------------------------------------------------ EsportsLib.RegisterCallback

RegisterCallback ==
  /\ Len(callbacks) < MaxCallbacks
  /\ callbacks' = Append(callbacks, Len(callbacks) + 1)
  /\ UNCHANGED <<calc, upstream, prov, winner, engine, reload, poll, reader, hist>>

\* ------------------------------------------------------------------ the providers' LoadData

\* RitoProvider.LoadData after the state was cleared and the fetches answered.
\* pr: the provider (cleared), g: this call's number, f: the endpoint that
\* failed ("none": all answered), up: the upstream winner of the match.
\* Gives the provider, the winner of the match it built and whether it raised.
RitoLoadData(pr, g, f, up) ==
  IF f = "leagues"
  THEN [prov |-> pr, built |-> FALSE, winner |-> "", raised |-> FALSE]
  ELSE [prov |-> [pr EXCEPT !.teams = g, !.rosters = g, !.matches = g,
                            !.brackets = [n \in DOMAIN pr.brackets |->
                                            [gen |-> g, schedule |-> {g}]]],
        built |-> TRUE, winner |-> up,
        \* self._FetchEsportsData('matchDetails', ...).get(...) on None
        raised |-> (f = "matchDetails")]

\* GrumbleProvider.LoadData after the state was cleared, the season bracket
\* created and the fetches answered.
GrumbleLoadData(pr, g, f, up) ==
  IF f = "season"
  \* response['schedule'] on None
  THEN [prov |-> pr, built |-> FALSE, winner |-> "", raised |-> TRUE]
  ELSE [prov |-> [pr EXCEPT !.teams = g, !.matches = g,
                            !.brackets = [n \in DOMAIN pr.brackets |->
                                            IF n = "season"
                                            THEN [gen |-> g, schedule |-> {g}]
                                            ELSE [gen |-> g, schedule |-> {}]]],
        built |-> TRUE, winner |-> up,
        raised |-> (f = "playoffs")]

\* What LoadData does on entry: takes the lock and clears its dicts.  Rito
\* clears _teams, _matches and _rosters (not _brackets); Grumble clears
\* _teams, _brackets and _matches and creates the season bracket.
ClearForLoad(p, t) ==
  LET g == prov[p].gen + 1 IN
  IF Kind(p) = "rito"
  THEN [prov[p] EXCEPT !.lock = t, !.gen = g, !.teams = 0, !.matches = 0, !.rosters = 0]
  ELSE [prov[p] EXCEPT !.lock = t, !.gen = g, !.teams = 0, !.matches = 0,
                       !.brackets = [n \in BracketNames(p) |->
                                       IF n = "season" THEN [gen |-> g, schedule |-> {}]
                                       ELSE NoBracket]]

\* The endpoint whose failure is the failure of the league as a whole.
TopEndpoint(p) == IF Kind(p) = "rito" THEN "leagues" ELSE "season"

\* ------------------------------------------------------------------ EsportsLib.LoadEsports

\* IsReady(): self._load_status.done(), the initial job returned or raised.
IsReady == reload["init"].pc \in {"done", "raised"}

\* __init__ submits LoadEsports to the executor, which runs it once.
LoadEsportsSubmitted ==
  /\ reload["init"].pc = "idle"
  /\ reload["init"].runs = 0
  /\ reload' = [reload EXCEPT !["init"] = [ReloadInit EXCEPT !.pc = "load", !.runs = 1]]
  /\ UNCHANGED <<calc, upstream, prov, winner, engine, callbacks, poll, reader, hist>>

\* ReloadData: FlushCache, then LoadEsports on the caller's thread.  The
\* caller calls it once the engine IsReady.
ReloadData ==
  /\ IsReady
  /\ reload["cmd"].pc \in {"idle", "done", "raised"}
  /\ reload["cmd"].runs < MaxReloads
  /\ reload' = [reload EXCEPT !["cmd"] = [ReloadInit EXCEPT !.pc = "load",
                                                           !.runs = reload["cmd"].runs + 1]]
  /\ UNCHANGED <<calc, upstream, prov, winner, engine, callbacks, poll, reader, hist>>

\* ReloadData called while the LoadEsports job of __init__ is still running:
\* nothing in ReloadData waits for it, the two calls overlap.
ReloadDataWhileLoading ==
  /\ ~IsReady
  /\ reload["init"].runs = 1
  /\ reload["cmd"].pc \in {"idle", "done", "raised"}
  /\ reload["cmd"].runs < MaxReloads
  /\ reload' = [reload EXCEPT !["cmd"] = [ReloadInit EXCEPT !.pc = "load",
                                                           !.runs = reload["cmd"].runs + 1]]
  /\ UNCHANGED <<calc, upstream, prov, winner, engine, callbacks, poll, reader, hist>>

\* provider.LoadData(): with self._lock, clear, then wait for the fetches.
LoadDataBegin(t) ==
  LET p == ProviderOrder[reload[t].idx] IN
  /\ reload[t].pc = "load"
  /\ CanAcquire(p, t)
  /\ prov' = [prov EXCEPT ![p] = ClearForLoad(p, t)]
  /\ hist' = [hist EXCEPT !.prev[p] = ProviderState(p), !.failed[p] = ""]
  /\ reload' = [reload EXCEPT ![t].pc = "fetch"]
  /\ UNCHANGED <<calc, upstream, winner, engine, callbacks, poll, reader>>

\* provider.LoadData(): the fetches are answered (or one of them fails), the
\* provider is rebuilt, the lock released.
LoadDataEnd(t) ==
  LET p == ProviderOrder[reload[t].idx]
      g == prov[p].gen
  IN
  /\ reload[t].pc = "fetch"
  /\ \E f \in LoadEndpoints(p) \cup {"none"} :
       \* matchDetails is fetched only for a match that has standings
       /\ f = "matchDetails" => upstream[p] # ""
       /\ LET r == IF Kind(p) = "rito" THEN RitoLoadData(prov[p], g, f, upstream[p])
                   ELSE GrumbleLoadData(prov[p], g, f, upstream[p])
          IN
          /\ prov' = [prov EXCEPT ![p] = [r.prov EXCEPT !.lock = "free"]]
          /\ winner' = IF r.built THEN [winner EXCEPT ![<<p, g>>] = r.winner] ELSE winner
          /\ hist' = [hist EXCEPT !.failed[p] = IF f = TopEndpoint(p) THEN "load" ELSE ""]
          /\ reload' = [reload EXCEPT ![t] =
                          IF r.raised THEN [@ EXCEPT !.pc = "raised", !.err = "fetch"]
                          ELSE IF Last(p) THEN [@ EXCEPT !.pc = "asmB", !.idx = 1]
                          ELSE [@ EXCEPT !.pc = "load", !.idx = @ + 1]]
  /\ UNCHANGED <<calc, upstream, engine, callbacks, poll, reader>>

\* sorted(matches.values(), key=timestamp): the matches of this model carry
\* equal timestamps, so the stable sort keeps the dict's insertion order, which
\* is the providers' order.
RECURSIVE SortedSchedule(_, _)
SortedSchedule(matches, i) ==
  IF i > Len(ProviderOrder) THEN <<>>
  ELSE LET here == {h \in matches : h[1] = ProviderOrder[i]} IN
       (IF here = {} THEN <<>> ELSE <<CHOOSE h \in here : TRUE>>)
         \o SortedSchedule(matches, i + 1)

\* The bracket objects a provider's brackets accessor hands out.
BracketsOf(p) ==
  {<<p, n, prov[p].brackets[n].gen>> : n \in {m \in BracketNames(p) : prov[p].brackets[m].gen # 0}}

\* The match objects in the schedules of a provider's brackets.
ScheduledOf(p) ==
  {<<p, g>> : g \in UNION {prov[p].brackets[n].schedule : n \in BracketNames(p)}}

\* LoadEsports, lines 665-674: leagues[league_id], then `league.brackets` (the
\* accessor takes the provider's lock), every bracket and every match of its
\* schedule; a match with a winner is scraped (every provider of __init__ is
\* stats_enabled), and the stats fetch returning None raises in
\* _ScrapePickBanData.
AssembleBrackets(t) ==
  LET p == ProviderOrder[reload[t].idx]
      tmp == reload[t].tmp
      found == ScheduledOf(p)
      scraped == {h \in found : winner[h] # ""}
  IN
  /\ reload[t].pc = "asmB"
  /\ CanAcquire(p, t)
  /\ \E ok \in BOOLEAN :
       /\ scraped = {} => ok
       /\ reload' = [reload EXCEPT ![t] =
            IF ok
            THEN [@ EXCEPT !.pc = "asmT",
                           !.tmp = [tmp EXCEPT
                                      !.leagues = @ \cup {p},
                                      !.brackets = @ \cup BracketsOf(p),
                                      !.matches = {h \in @ : h[1] # p} \cup found,
                                      !.stats = @ \cup scraped]]
            ELSE [@ EXCEPT !.pc = "raised", !.err = "fetch"]]
  /\ UNCHANGED <<calc, upstream, prov, winner, engine, callbacks, poll, reader, hist>>

\* LoadEsports, lines 675-676: `league.teams` (the accessor takes the lock).
AssembleTeams(t) ==
  LET p == ProviderOrder[reload[t].idx] IN
  /\ reload[t].pc = "asmT"
  /\ CanAcquire(p, t)
  /\ reload' = [reload EXCEPT ![t] =
       [@ EXCEPT !.tmp.teams = @ \cup (IF prov[p].teams = 0 THEN {} ELSE {<<p, prov[p].teams>>}),
                 !.pc = IF Last(p) THEN "swap" ELSE "asmB",
                 !.idx = IF Last(p) THEN 1 ELSE @ + 1]]
  /\ UNCHANGED <<calc, upstream, prov, winner, engine, callbacks, poll, reader, hist>>

\* Lines 678-699 with self._brackets left as it was assigned at construction.
Published_BracketsKept(tmp, epoch) ==
  [teams |-> tmp.teams, schedule |-> SortedSchedule(tmp.matches, 1),
   matches |-> tmp.matches, brackets |-> {}, leagues |-> tmp.leagues,
   stats |-> tmp.stats, epoch |-> epoch]

\* The fields LoadEsports assigns under self._lock, lines 678-699.
Published(tmp, epoch) ==
  [teams |-> tmp.teams, schedule |-> SortedSchedule(tmp.matches, 1),
   matches |-> tmp.matches, brackets |-> tmp.brackets, leagues |-> tmp.leagues,
   stats |-> tmp.stats, epoch |-> epoch]

\* LoadEsports, lines 678-699: the swap, under the engine's lock.
Swap(t) ==
  /\ reload[t].pc = "swap"
  /\ engine' = Published(reload[t].tmp, engine.epoch + 1)
  /\ hist' = [hist EXCEPT !.retired = @ \cup (engine.matches \ reload[t].tmp.matches)]
  /\ reload' = [reload EXCEPT ![t].pc = "cb", ![t].idx = 1, ![t].cbSeen = Len(callbacks)]
  /\ UNCHANGED <<calc, upstream, prov, winner, callbacks, poll, reader>>

\* What `for fn in self._callbacks: fn()` does with callback number i, which
\* raises or not: the call is logged; an exception leaves the loop.
CallbackStep(r, i, raises) ==
  IF raises THEN [r EXCEPT !.cbLog = Append(@, i), !.pc = "raised", !.err = "callback"]
  ELSE [r EXCEPT !.cbLog = Append(@, i), !.idx = @ + 1]

\* LoadEsports, lines 702-703: the next callback runs.
RunCallback(t) ==
  /\ reload[t].pc = "cb"
  /\ reload[t].idx <= Len(callbacks)
  /\ \E raises \in BOOLEAN :
       reload' = [reload EXCEPT ![t] = CallbackStep(@, callbacks[reload[t].idx], raises)]
  /\ UNCHANGED <<calc, upstream, prov, winner, engine, callbacks, poll, reader, hist>>

\* LoadEsports returns once the list is exhausted.
LoadEsportsReturn(t) ==
  /\ reload[t].pc = "cb"
  /\ reload[t].idx > Len(callbacks)
  /\ reload' = [reload EXCEPT ![t].pc = "done"]
  /\ UNCHANGED <<calc, upstream, prov, winner, engine, callbacks, poll, reader, hist>>

\* ------------------------------------------------------------------ the providers' UpdateMatches

\* RitoProvider.UpdateMatches once the league fetch is answered.  pr: the
\* provider, w: the winner field of its match object (if it has one), f: the
\* endpoint that failed, up: the upstream winner.  Gives the winner field
\* afterwards, the list it returns (match objects by LoadData number) and the
\* error it raised.
RitoUpdateMatches(pr, w, f, up) ==
  IF f = "leagues" THEN [winner |-> w, updated |-> <<>>, err |-> ""]
  ELSE IF pr.matches = 0 THEN [winner |-> w, updated |-> <<>>, err |-> ""]
  ELSE IF w = "" /\ up # "" THEN [winner |-> up, updated |-> <<pr.matches>>, err |-> ""]
  ELSE [winner |-> w, updated |-> <<>>, err |-> ""]

\* GrumbleProvider._UpdateSchedule on the season bracket.
GrumbleUpdateSchedule(pr, w, up) ==
  IF pr.matches = 0 \/ w # "" THEN [winner |-> w, updated |-> <<>>]
  ELSE IF up # "" THEN [winner |-> up, updated |-> <<pr.matches>>]
  ELSE [winner |-> w, updated |-> <<>>]

\* GrumbleProvider.UpdateMatches once the fetches are answered: response
\* ['schedule'] on None raises, self._brackets[...] raises when LoadData never
\* created that bracket; the playoffs schedule holds no match upstream.
GrumbleUpdateMatches(pr, w, f, up) ==
  LET season == GrumbleUpdateSchedule(pr, w, up) IN
  IF f = "season" THEN [winner |-> w, updated |-> <<>>, err |-> "fetch"]
  ELSE IF pr.brackets["season"].gen = 0 THEN [winner |-> w, updated |-> <<>>, err |-> "key"]
  ELSE IF f = "playoffs" THEN [winner |-> season.winner, updated |-> <<>>, err |-> "fetch"]
  ELSE IF pr.brackets["playoffs"].gen = 0
       THEN [winner |-> season.winner, updated |-> <<>>, err |-> "key"]
  ELSE [winner |-> season.winner, updated |-> season.updated, err |-> ""]

\* ------------------------------------------------------------------ EsportsLib.UpdateEsportsMatches

UpdateEsportsMatchesStart ==
  /\ poll.pc \in {"idle", "done", "raised"}
  /\ poll.runs < MaxPolls
  /\ poll' = [PollInit EXCEPT !.pc = "upd", !.runs = poll.runs + 1]
  /\ UNCHANGED <<calc, upstream, prov, winner, engine, callbacks, reload, reader, hist>>

\* provider.UpdateMatches(): with self._lock, then wait for the fetch.
UpdateMatchesBegin ==
  LET p == ProviderOrder[poll.idx] IN
  /\ poll.pc = "upd"
  /\ CanAcquire(p, "poll")
  /\ prov' = [prov EXCEPT ![p].lock = "poll"]
  /\ hist' = [hist EXCEPT !.prev[p] = ProviderState(p), !.failed[p] = ""]
  /\ poll' = [poll EXCEPT !.pc = "updFetch"]
  /\ UNCHANGED <<calc, upstream, winner, engine, callbacks, reload, reader>>

\* provider.UpdateMatches(): the fetches are answered (or one fails), the
\* provider's match is patched, the lock released, the list returned and
\* appended to updated_matches.
UpdateMatchesEnd ==
  LET p == ProviderOrder[poll.idx]
      m == prov[p].matches
      w == IF m = 0 THEN "" ELSE winner[<<p, m>>]
  IN
  /\ poll.pc = "updFetch"
  /\ \E f \in UpdateEndpoints(p) \cup {"none"} :
       LET r == IF Kind(p) = "rito" THEN RitoUpdateMatches(prov[p], w, f, upstream[p])
                ELSE GrumbleUpdateMatches(prov[p], w, f, upstream[p])
       IN
       /\ winner' = IF m = 0 THEN winner ELSE [winner EXCEPT ![<<p, m>>] = r.winner]
       /\ hist' = [hist EXCEPT
                     !.failed[p] = IF f = TopEndpoint(p) THEN "update" ELSE "",
                     !.pollSet = IF r.winner # w THEN @ \cup {<<p, m>>} ELSE @]
       /\ poll' = IF r.err # "" THEN [poll EXCEPT !.pc = "raised", !.err = r.err]
                  ELSE [poll EXCEPT
                          !.updated = @ \o [i \in 1..Len(r.updated) |-> <<p, r.updated[i]>>],
                          !.pc = IF Last(p) THEN "ret" ELSE "upd",
                          !.idx = IF Last(p) THEN @ ELSE @ + 1]
  /\ prov' = [prov EXCEPT ![ProviderOrder[poll.idx]].lock = "free"]
  /\ UNCHANGED <<calc, upstream, engine, callbacks, reload, reader>>

\* UpdateEsportsMatches returns updated_matches.
UpdateEsportsMatchesReturn ==
  /\ poll.pc = "ret"
  /\ poll' = [poll EXCEPT !.pc = "done"]
  /\ UNCHANGED <<calc, upstream, prov, winner, engine, callbacks, reload, reader, hist>>

\* ------------------------------------------------------------------ EsportsLib read queries

\* A query may start when the reader thread is not inside one.  Callers gate
\* on IsReady.
CanQuery ==
  /\ IsReady
  /\ reader.pc \in {"idle", "done", "raised"}
  /\ reader.runs < MaxQueries

\* GetSchedule('All', include_playoffs=False) / GetResults('All'), first
\* block: under self._lock, `subcommand in self.teams`, `in self.leagues`;
\* 'All' names neither, the qualifier stays 'All'.
ResolveQualifier(kind) ==
  /\ CanQuery
  /\ reader' = [ReaderInit EXCEPT !.pc = "schedule", !.kind = kind,
                                  !.runs = reader.runs + 1,
                                  !.epochs = {engine.epoch},
                                  !.must = {h \in hist.pollSet : winner[h] # ""}]
  /\ UNCHANGED <<calc, upstream, prov, winner, engine, callbacks, reload, poll, hist>>

GetScheduleBegin == ResolveQualifier("schedule")

GetResultsBegin == ResolveQualifier("results")

\* `self.schedule` (the accessor takes the engine's lock); GetResults
\* reverses a copy.
ReadSchedule ==
  /\ reader.pc = "schedule"
  /\ reader' = [reader EXCEPT
                  !.pc = "loop", !.idx = 1,
                  !.schedule = IF reader.kind = "results" THEN Reverse(engine.schedule)
                               ELSE engine.schedule,
                  !.epochs = @ \cup {engine.epoch}]
  /\ UNCHANGED <<calc, upstream, prov, winner, engine, callbacks, reload, poll, hist>>

\* _MatchIsInteresting / _ResultIsInteresting for qualifier 'All': the match
\* object's winner field as it is now (the matches of this model lie in the
\* future and in a bracket that is not the playoffs).
Interesting(kind, m) == IF kind = "results" THEN winner[m] # "" ELSE winner[m] = ""

\* One turn of the loop over the schedule: `self.brackets[match.bracket_id]`
\* (the accessor takes the engine's lock; a missing key raises), the test, the
\* formatted line, the break at num_games.
LoopStep ==
  LET m == reader.schedule[reader.idx]
      known == \E b \in engine.brackets : b[1] = m[1] /\ b[2] = MatchBracket(m[1])
      out == IF Interesting(reader.kind, m) THEN Append(reader.results, <<m, winner[m]>>)
             ELSE reader.results
  IN
  /\ reader.pc = "loop"
  /\ reader.idx <= Len(reader.schedule)
  /\ reader' = IF ~known THEN [reader EXCEPT !.pc = "raised", !.err = "key"]
               ELSE [reader EXCEPT
                       !.results = out,
                       !.epochs = @ \cup {engine.epoch},
                       !.idx = @ + 1,
                       !.pc = IF Len(out) >= NumGamesDefault THEN "done" ELSE "loop"]
  /\ UNCHANGED <<calc, upstream, prov, winner, engine, callbacks, reload, poll, hist>>

\* The loop ends; the query returns results[:num_games].
LoopEnd ==
  /\ reader.pc = "loop"
  /\ reader.idx > Len(reader.schedule)
  /\ reader' = [reader EXCEPT !.pc = "done"]
  /\ UNCHANGED <<calc, upstream, prov, winner, engine, callbacks, reload, poll, hist>>

\* GetStandings(req_region, ''), line 807: `self.leagues[req_region]` (the
\* accessor takes the engine's lock).  Before the first swap self._leagues is
\* a plain dict and the missing key raises.
GetStandingsBegin ==
  /\ CanQuery
  /\ \E p \in Providers :
       reader' = IF p \in engine.leagues
                 THEN [ReaderInit EXCEPT !.pc = "brackets", !.kind = "standings",
                                         !.runs = reader.runs + 1, !.league = p,
                                         !.epochs = {engine.epoch},
                                         !.snap = engine.brackets]
                 ELSE [ReaderInit EXCEPT !.pc = "raised", !.kind = "standings",
                                         !.runs = reader.runs + 1, !.err = "key"]
  /\ UNCHANGED <<calc, upstream, prov, winner, engine, callbacks, reload, poll, hist>>

\* GetStandings, line 812: `league.brackets`; the league is the provider
\* object itself and the accessor waits for the provider's lock.
GetStandingsBrackets ==
  LET p == reader.league IN
  /\ reader.pc = "brackets"
  /\ CanAcquire(p, "reader")
  /\ reader' = [reader EXCEPT !.pc = "done", !.used = BracketsOf(p),
                              !.results = SortedSchedule(ScheduledOf(p), 1)]
  /\ UNCHANGED <<calc, upstream, prov, winner, engine, callbacks, reload, poll, hist>>

\* ------------------------------------------------------------------ RitoProvider on raw matches

\* self._rosters after LoadData: roster id -> the team's acronym.
RosterTeam(r) == IF r = "r1" THEN "T1" ELSE "T2"

\* The 'input' lists a raw match can carry: no entry, or two entries that
\* each name a roster or not ("-": the slot is not decided).
RawInputs == {<<>>} \cup {<<a, b>> : a \in {"r1", "-"}, b \in {"r2", "-"}}

\* The top result group of a raw match's standings.
TopGroups == {<<>>, <<"r1">>, <<"r2">>, <<"r1", "r2">>}

\* A raw match of a bracket: its input, and its standings if it has any.
RawMatches ==
  {r \in [input : RawInputs, standings : BOOLEAN, top : TopGroups] :
     ~r.standings => r.top = <<>>}

NoMatch == [present |-> FALSE, blue |-> "", red |-> "", winner |-> ""]

\* RitoProvider._ExtractMatchTeams: None (here <<>>) unless the input has two
\* entries; a slot without a roster is 'TBD'.
ExtractMatchTeams(raw) ==
  IF Len(raw.input) # 2 THEN <<>>
  ELSE [i \in 1..2 |-> IF raw.input[i] = "-" THEN "TBD" ELSE RosterTeam(raw.input[i])]

\* Lines 292-296 and 342-346: the winner the top group gives, old otherwise.
WinnerFromTopGroup_TieFromOne(top, old) ==
  IF Len(top) >= 1 THEN "TIE" ELSE old

WinnerFromTopGroup(top, old) ==
  IF Len(top) > 1 THEN "TIE"
  ELSE IF Len(top) = 1 THEN RosterTeam(top[1])
  ELSE old

\* RitoProvider.LoadData, lines 271-296, for one raw match: the match it adds
\* to the schedule and to self._matches (NoMatch: skipped).
RitoBuildMatch(raw) ==
  LET teams == ExtractMatchTeams(raw) IN
  IF teams = <<>> THEN NoMatch
  ELSE [present |-> TRUE, blue |-> teams[1], red |-> teams[2],
        winner |-> IF raw.standings THEN WinnerFromTopGroup(raw.top, "") ELSE ""]

\* Lines 331-347 without `not old_match.winner`: any raw match with standings
\* sets the winner again.
RitoPatchMatch_Overwrite(old, raw) ==
  LET teams == ExtractMatchTeams(raw)
      patched == IF "TBD" \in {old.blue, old.red} /\ teams # <<>>
                 THEN [old EXCEPT !.blue = teams[1], !.red = teams[2]]
                 ELSE old
  IN
  IF ~old.present THEN [match |-> old, returned |-> FALSE]
  ELSE IF raw.standings
       THEN [match |-> [patched EXCEPT !.winner = WinnerFromTopGroup(raw.top, old.winner)],
             returned |-> TRUE]
  ELSE [match |-> patched, returned |-> FALSE]

\* RitoProvider.UpdateMatches, lines 331-347, for one raw match: the match
\* afterwards and whether it is appended to updated_matches.
RitoPatchMatch(old, raw) ==
  LET teams == ExtractMatchTeams(raw)
      patched == IF "TBD" \in {old.blue, old.red} /\ teams # <<>>
                 THEN [old EXCEPT !.blue = teams[1], !.red = teams[2]]
                 ELSE old
  IN
  IF ~old.present THEN [match |-> old, returned |-> FALSE]
  ELSE IF old.winner = "" /\ raw.standings
       THEN [match |-> [patched EXCEPT !.winner = WinnerFromTopGroup(raw.top, old.winner)],
             returned |-> TRUE]
  ELSE [match |-> patched, returned |-> FALSE]

NoRaw == [input |-> <<>>, standings |-> FALSE, top |-> <<>>]

\* A Rito provider as constructed: no match.
RitoInit ==
  [op |-> "idle", i |-> 1, matches |-> [k \in 1..MaxMatches |-> NoMatch],
   updated |-> <<>>, last |-> [id |-> 0, raw |-> NoRaw, old |-> NoMatch]]

InitRito ==
  /\ EngineVarsInit
  /\ calc = RitoInit

\* LoadData starts: self._matches = {}; the league descriptor is fetched.
RitoLoadDataStart ==
  /\ calc.op \in {"idle", "loaded", "updated"}
  /\ calc' = [RitoInit EXCEPT !.op = "loading"]
  /\ UNCHANGED engineVars

\* LoadData, one turn of `for match in bracket['matches'].values()`.
RitoLoadDataMatch ==
  /\ calc.op = "loading"
  /\ calc.i <= MaxMatches
  /\ \E raw \in RawMatches :
       calc' = [calc EXCEPT !.matches[calc.i] = RitoBuildMatch(raw),
                            !.last = [id |-> calc.i, raw |-> raw, old |-> NoMatch],
                            !.i = @ + 1]
  /\ UNCHANGED engineVars

RitoLoadDataReturn ==
  /\ calc.op = "loading"
  /\ calc.i > MaxMatches
  /\ calc' = [calc EXCEPT !.op = "loaded"]
  /\ UNCHANGED engineVars

\* UpdateMatches starts: updated_matches = []; the descriptor is fetched again.
RitoUpdateMatchesStart ==
  /\ calc.op \in {"loaded", "updated"}
  /\ calc' = [calc EXCEPT !.op = "updating", !.i = 1, !.updated = <<>>,
                          !.last = [id |-> 0, raw |-> NoRaw, old |-> NoMatch]]
  /\ UNCHANGED engineVars

\* UpdateMatches, one turn of `for match in bracket['matches'].values()`.
RitoUpdateMatchesMatch ==
  /\ calc.op = "updating"
  /\ calc.i <= MaxMatches
  /\ \E raw \in RawMatches :
       LET r == RitoPatchMatch(calc.matches[calc.i], raw) IN
       calc' = [calc EXCEPT !.matches[calc.i] = r.match,
                            !.updated = IF r.returned THEN Append(@, calc.i) ELSE @,
                            !.last = [id |-> calc.i, raw |-> raw, old |-> calc.matches[calc.i]],
                            !.i = @ + 1]
  /\ UNCHANGED engineVars

RitoUpdateMatchesReturn ==
  /\ calc.op = "updating"
  /\ calc.i > MaxMatches
  /\ calc' = [calc EXCEPT !.op = "updated"]
  /\ UNCHANGED engineVars

\* ------------------------------------------------------------------ standings

\* Team ids seen in a Grumble schedule.
GrumbleTeams == {"A", "B", "C", "D"}

\* The per-team outcome field of a Grumble match: absent, or one of these.
Outcomes == {"", "VICTORY", "TIE", "DEFEAT"}

\* A raw Grumble match: two sides, each a team id ("": no ref.id) and an outcome.
GrumbleMatches ==
  {m \in [t1 : GrumbleTeams, o1 : Outcomes, t2 : GrumbleTeams \cup {""}, o2 : Outcomes] :
     m.t1 # m.t2}

\* esports_pb2.TeamStanding(team=...): every count zero.
NewStanding(team) ==
  [team |-> team, rank |-> 0, wins |-> 0, losses |-> 0, ties |-> 0, points |-> 0]

\* The index of a team's entry in the standings (0: none).
IndexOf(st, team) ==
  IF \E i \in 1..Len(st) : st[i].team = team
  THEN CHOOSE i \in 1..Len(st) : st[i].team = team
  ELSE 0

\* Lines 443-466 with a tie scored like a win: 3 points.
TallySide_TieAsWin(st, team, outcome) ==
  LET st1 == IF \E i \in 1..Len(st) : st[i].team = team THEN st
             ELSE Append(st, NewStanding(team))
      i == IndexOf(st1, team)
  IN
  IF team = "" THEN st
  ELSE IF outcome = "" THEN st1
  ELSE IF outcome = "VICTORY"
       THEN [st1 EXCEPT ![i].wins = @ + 1, ![i].points = @ + 3]
  ELSE IF outcome = "TIE"
       THEN [st1 EXCEPT ![i].ties = @ + 1, ![i].points = @ + 3]
  ELSE [st1 EXCEPT ![i].losses = @ + 1]

\* _ParseSchedule, lines 443-466, for one side of a match: the standings dict
\* (in insertion order) after it.
TallySide(st, team, outcome) ==
  LET st1 == IF IndexOf(st, team) = 0 THEN Append(st, NewStanding(team)) ELSE st
      i == IndexOf(st1, team)
  IN
  IF team = "" THEN st
  ELSE IF outcome = "" THEN st1
  ELSE IF outcome = "VICTORY"
       THEN [st1 EXCEPT ![i].wins = @ + 1, ![i].points = @ + 3]
  ELSE IF outcome = "TIE"
       THEN [st1 EXCEPT ![i].ties = @ + 1, ![i].points = @ + 1]
  ELSE [st1 EXCEPT ![i].losses = @ + 1]

\* _ParseSchedule, lines 443-466: m.winner after both sides; a later side
\* overwrites an earlier one.
SideWinner(w, team, outcome) ==
  IF team = "" \/ outcome = "" THEN w
  ELSE IF outcome = "VICTORY" THEN team
  ELSE IF outcome = "TIE" THEN "TIE"
  ELSE w

\* x put into a list sorted by descending points, after its equals.
InsertByPoints(sorted, x) ==
  LET k == Cardinality({i \in 1..Len(sorted) : sorted[i].points >= x.points}) IN
  SubSeq(sorted, 1, k) \o <<x>> \o SubSeq(sorted, k + 1, Len(sorted))

\* sorted(standings.values(), key=lambda x: x.points, reverse=True), line 467:
\* a stable sort, equal points keep their order.
RECURSIVE SortByPoints(_)
SortByPoints(st) ==
  IF st = <<>> THEN <<>>
  ELSE InsertByPoints(SortByPoints(SubSeq(st, 1, Len(st) - 1)), st[Len(st)])

\* Lines 469-475, the loop from entry i on: rank and cur_points as they stand,
\* acc the entries ranked so far.
RECURSIVE RankLoop(_, _, _, _, _)
RankLoop(sorted, i, rank, cur, acc) ==
  IF i > Len(sorted) THEN acc
  ELSE LET r == IF sorted[i].points # cur THEN i ELSE rank IN
       RankLoop(sorted, i + 1, r, sorted[i].points, Append(acc, [sorted[i] EXCEPT !.rank = r]))

\* Lines 469-475 with the tie sharing left out: rank = i + 1 for every entry.
RankStandings_ByPosition(sorted) ==
  [i \in 1..Len(sorted) |-> [sorted[i] EXCEPT !.rank = i]]

\* Lines 469-475: rank = 1, cur_points = -1, then the loop (enumerate counts
\* from 0, positions here from 1).
RankStandings(sorted) == RankLoop(sorted, 1, 1, -1, <<>>)

\* The rosters of a Rito bracket.
RitoRosters == 1..MaxRecords

\* league_data['highlanderRecords'] of the bracket: per roster a score, or no
\* record (-1); the records come in roster order.
RecordScores == [RitoRosters -> -1..MaxScore]

\* bracket['standings']['result']: per roster the group it is listed in
\* (0: not listed); a group lists its rosters in roster order.
Groupings == [RitoRosters -> 0..MaxRecords]

\* The rosters of the set S, as a list in roster order.
RECURSIVE RostersWhere(_, _)
RostersWhere(S, r) ==
  IF r > MaxRecords THEN <<>>
  ELSE (IF r \in S THEN <<r>> ELSE <<>>) \o RostersWhere(S, r + 1)

\* _ExtractStandings(record, rank): rank None leaves the field at 0.
ExtractStandings(roster, score, rank) ==
  [team |-> roster, rank |-> rank, wins |-> 0, losses |-> 0, ties |-> 0, points |-> score]

\* RitoProvider.LoadData, lines 253-263: group after group, rank =
\* len(b.standings) + 1, one entry per listed roster that has a record.
RECURSIVE GroupStandings(_, _, _, _)
GroupStandings(grouping, scores, g, acc) ==
  IF g > MaxRecords THEN acc
  ELSE LET InGroup == {r \in RitoRosters : grouping[r] = g /\ scores[r] # -1}
           members == RostersWhere(InGroup, 1)
           rank == Len(acc) + 1
       IN GroupStandings(grouping, scores, g + 1,
            acc \o [i \in 1..Len(members) |->
                      ExtractStandings(members[i], scores[members[i]], rank)])

\* RitoProvider.LoadData, lines 265-269: every record of the bracket, no rank.
FlatStandings(scores) ==
  LET HasRecord == {r \in RitoRosters : scores[r] # -1}
      members == RostersWhere(HasRecord, 1)
  IN [i \in 1..Len(members) |-> ExtractStandings(members[i], scores[members[i]], 0)]

StandingsInit == [op |-> "idle", kind |-> "", n |-> 0, standings |-> <<>>, winners |-> <<>>]

InitStandings ==
  /\ EngineVarsInit
  /\ calc = StandingsInit

\* GrumbleProvider._ParseSchedule, one turn of `for match in week['matches']`.
GrumbleParseMatch ==
  /\ calc.op \in {"idle", "parsing"}
  /\ calc.n < MaxSchedule
  /\ \E m \in GrumbleMatches :
       calc' = [calc EXCEPT
                  !.op = "parsing", !.kind = "grumble", !.n = @ + 1,
                  !.standings = TallySide(TallySide(@, m.t1, m.o1), m.t2, m.o2),
                  !.winners = Append(@, SideWinner(SideWinner("", m.t1, m.o1), m.t2, m.o2))]
  /\ UNCHANGED engineVars

\* GrumbleProvider._ParseSchedule, lines 467-476: sort, rank, extend.
GrumbleParseScheduleReturn ==
  /\ calc.op \in {"idle", "parsing"}
  /\ calc' = [calc EXCEPT !.op = "done", !.kind = "grumble",
                          !.standings = RankStandings(SortByPoints(@))]
  /\ UNCHANGED engineVars

\* RitoProvider.LoadData for a bracket that has 'standings'.
RitoGroupStandings ==
  /\ calc.op = "idle"
  /\ \E grouping \in Groupings, scores \in RecordScores :
       calc' = [calc EXCEPT !.op = "done", !.kind = "rito_groups",
                            !.standings = GroupStandings(grouping, scores, 1, <<>>)]
  /\ UNCHANGED engineVars

\* RitoProvider.LoadData for a bracket without 'standings'.
RitoFlatStandings ==
  /\ calc.op = "idle"
  /\ \E scores \in RecordScores :
       calc' = [calc EXCEPT !.op = "done", !.kind = "rito_flat",
                            !.standings = FlatStandings(scores)]
  /\ UNCHANGED engineVars

\* ------------------------------------------------------------------ GetSchedule / GetResults on one snapshot

\* The strings a query is called with: one that names nothing, one that the
\* team index resolves, one that the league index resolves, one that both
\* resolve.
Subcommands == {"", "T2", "NA", "T3NA"}

\* `subcommand in self.teams` / `self.teams[subcommand].team_id` ("": not in).
TeamIndex(q) == IF q = "T2" THEN "T2" ELSE IF q = "T3NA" THEN "T3" ELSE ""

\* `subcommand in self.leagues` / `self.leagues[subcommand].league_id`.
LeagueIndex(q) == IF q \in {"NA", "T3NA"} THEN "NA" ELSE ""

\* The first block of GetSchedule / GetResults with the two tests swapped: the
\* team index has the last word.
ResolveSubcommand_TeamLast(q) ==
  IF TeamIndex(q) # "" THEN [qualifier |-> TeamIndex(q), is_team |-> TRUE]
  ELSE IF LeagueIndex(q) # "" THEN [qualifier |-> LeagueIndex(q), is_team |-> FALSE]
  ELSE [qualifier |-> "All", is_team |-> FALSE]

\* GetSchedule lines 726-731, GetResults lines 771-779: qualifier = 'All'; if
\* the team index knows the string, the team's id; then, if the league index
\* knows it, the league's id (and is_team = False).
ResolveSubcommand(q) ==
  LET first == IF TeamIndex(q) # "" THEN [qualifier |-> TeamIndex(q), is_team |-> TRUE]
               ELSE [qualifier |-> "All", is_team |-> FALSE]
  IN IF LeagueIndex(q) # "" THEN [qualifier |-> LeagueIndex(q), is_team |-> FALSE]
     ELSE first

\* The timestamp field of a match no provider attached a time to: the
\* protobuf field is left unset by bracket.schedule.add(...) and reads 0.
UnsetTimestamp == 0

\* The number of games a match is known to have.
GamesKnown == 0..1

\* A match of the snapshot with the bracket it sits in: the bracket's league
\* and is_playoffs, the teams, the winner ("": none), the timestamp in hours,
\* the number of games.
SnapshotMatches ==
  [league : Providers, playoffs : BOOLEAN, blue : {"T1"}, red : {"T2", "T3"},
   winner : {"", "T1", "TIE"}, timestamp : UnsetTimestamp..MaxTime, games : GamesKnown]

\* arrow.Arrow.max: later than the time of any timestamp.
ArrowMax == MaxTime + 1

\* Match.__init__, line 46: self.time = arrow.get(self._match.timestamp).
MatchTime(m) == m.timestamp

\* _MatchIsInteresting without the test of the playoffs flag.
MatchIsInteresting_AnyBracket(m, qualifier, now, include_playoffs) ==
  /\ (qualifier = "All" \/ qualifier \in {m.league, m.blue, m.red})
  /\ m.winner = ""
  /\ (MatchTime(m) = ArrowMax \/ MatchTime(m) + m.games > now)

\* EsportsLib._MatchIsInteresting, lines 913-922.
MatchIsInteresting(m, qualifier, now, include_playoffs) ==
  /\ (qualifier = "All" \/ qualifier \in {m.league, m.blue, m.red})
  /\ m.winner = ""
  /\ (MatchTime(m) = ArrowMax \/ MatchTime(m) + m.games > now)
  /\ (include_playoffs \/ ~m.playoffs)

\* EsportsLib._ResultIsInteresting, lines 924-929.
ResultIsInteresting(m, qualifier) ==
  /\ (qualifier = "All" \/ qualifier \in {m.league, m.blue, m.red})
  /\ m.winner # ""

\* GetSchedule lines 741-751: what stands for the time in the line of a match.
DateTime(m, now) ==
  IF MatchTime(m) > now
  THEN (IF MatchTime(m) = ArrowMax THEN "TBD" ELSE "date")
  ELSE "LIVE"

NoVisit == [pos |-> 0, match |-> [league |-> "", playoffs |-> FALSE, blue |-> "", red |-> "",
                                   winner |-> "", timestamp |-> 0, games |-> 0]]

\* No query is running; self._schedule is not looked at.
QueryIdle ==
  [op |-> "idle", kind |-> "", subcommand |-> "", qualifier |-> "", is_team |-> FALSE,
   include_playoffs |-> FALSE, num_games |-> 0, now |-> 0,
   schedule |-> <<>>, tmp |-> <<>>, i |-> 1, out |-> <<>>, last |-> NoVisit]

InitQuery ==
  /\ EngineVarsInit
  /\ calc = QueryIdle

\* The engine's self._schedule holding n matches, by position.
ScheduleOf(n) == [k \in 1..n |-> k]

\* The arguments of a query, the clock, and the schedule it finds.
QueryStart(kind, q, include_playoffs, num_games, now, n) ==
  [QueryIdle EXCEPT !.op = "loop", !.kind = kind, !.subcommand = q,
                    !.qualifier = ResolveSubcommand(q).qualifier,
                    !.is_team = ResolveSubcommand(q).is_team,
                    !.include_playoffs = include_playoffs, !.num_games = num_games,
                    !.now = now, !.schedule = ScheduleOf(n)]

\* GetSchedule up to the loop: the qualifier, now = arrow.utcnow(), then
\* `for match in self.schedule`.
GetScheduleStart ==
  /\ calc.op = "idle"
  /\ \E q \in Subcommands, inc \in BOOLEAN, lim \in 1..MaxLimit,
        now \in 2..MaxTime, n \in 0..MaxListed :
       calc' = [QueryStart("schedule", q, inc, lim, now, n) EXCEPT !.tmp = ScheduleOf(n)]
  /\ UNCHANGED engineVars

\* GetResults lines 783-784 done on the list itself: self.schedule.reverse().
ReversedCopy_InPlace(schedule) ==
  [schedule |-> Reverse(schedule), tmp |-> Reverse(schedule)]

\* GetResults lines 783-784: tmp_schedule = self.schedule[:], then
\* tmp_schedule.reverse().
ReversedCopy(schedule) ==
  [schedule |-> schedule, tmp |-> Reverse(schedule)]

\* GetResults up to the loop: the qualifier, the reversed copy.
GetResultsStart ==
  /\ calc.op = "idle"
  /\ \E q \in Subcommands, lim \in 1..MaxLimit, n \in 0..MaxListed :
       LET c == QueryStart("results", q, FALSE, lim, 0, n)
           r == ReversedCopy(c.schedule)
       IN calc' = [c EXCEPT !.schedule = r.schedule, !.tmp = r.tmp]
  /\ UNCHANGED engineVars

\* The match at a position is one the sorted schedule can hold there, given
\* the match the walk saw last: later in the list, not earlier in time.
FitsSchedule(m, pos, last) ==
  \/ last.pos = 0
  \/ pos > last.pos /\ m.timestamp >= last.match.timestamp
  \/ pos < last.pos /\ m.timestamp <= last.match.timestamp

\* One turn of the loop of GetSchedule (lines 737-762) or GetResults (lines
\* 785-801): the test, the line appended, the break at num_games.
QueryMatch ==
  /\ calc.op = "loop"
  /\ calc.i <= Len(calc.tmp)
  /\ LET pos == calc.tmp[calc.i] IN
     \E m \in SnapshotMatches :
       /\ FitsSchedule(m, pos, calc.last)
       /\ LET hit == IF calc.kind = "schedule"
                     THEN MatchIsInteresting(m, calc.qualifier, calc.now, calc.include_playoffs)
                     ELSE ResultIsInteresting(m, calc.qualifier)
              line == [pos |-> pos,
                       shown |-> IF calc.kind = "schedule" THEN DateTime(m, calc.now)
                                 ELSE m.winner]
              out == IF hit THEN Append(calc.out, line) ELSE calc.out
          IN calc' = [calc EXCEPT !.out = out, !.last = [pos |-> pos, match |-> m],
                                  !.i = @ + 1,
                                  !.op = IF Len(out) >= calc.num_games THEN "break" ELSE "loop"]
  /\ UNCHANGED engineVars

\* messages.SCHEDULE_NO_GAMES_STRING as a line.
NoGames == [pos |-> 0, shown |-> "no games"]

\* After the loop: GetSchedule lines 764-767 (the 'no games' line and the
\* qualifier 'No' when nothing was listed), GetResults line 803; both return
\* the first num_games lines.
QueryReturn ==
  /\ \/ calc.op = "break"
     \/ calc.op = "loop" /\ calc.i > Len(calc.tmp)
  /\ LET none == calc.kind = "schedule" /\ calc.out = <<>>
         out == IF none THEN <<NoGames>> ELSE calc.out
     IN calc' = [calc EXCEPT !.op = "done",
                             !.qualifier = IF none THEN "No" ELSE @,
                             !.out = SubSeq(out, 1, IF Len(out) < calc.num_games THEN Len(out)
                                                    ELSE calc.num_games)]
  /\ UNCHANGED engineVars

\* ------------------------------------------------------------------ EsportsLib.GetTopPickBanChamps

\* sum(self._num_games...) for the region asked for: the games played.
NumGames == 100

\* return num_games, sorted_champs[:5]
TopChamps == 5

\* x[1]['picks'] of a champion's flattened data in that region.
PickCounts == {4, 5, 6}

\* sort_key_fn(x[1]): the value the caller's key gives a champion.
KeyValues == {0, 1}

\* Line 890 with > for >=.
FilterChamps_AboveFloor(champs, num_games) ==
  SelectSeq(champs, LAMBDA c : 20 * c.picks > num_games)

\* Lines 888-891: picks >= num_games / 20.0.
FilterChamps(champs, num_games) ==
  SelectSeq(champs, LAMBDA c : 20 * c.picks >= num_games)

\* c put into a list sorted by descending picks, after its equals.
InsertByPicks(sorted, c) ==
  LET k == Cardinality({i \in 1..Len(sorted) : sorted[i].picks >= c.picks}) IN
  SubSeq(sorted, 1, k) \o <<c>> \o SubSeq(sorted, k + 1, Len(sorted))

\* Lines 893-894: sorted(filtered_champs, key=picks, reverse=True), stable.
RECURSIVE SortByPicks(_)
SortByPicks(champs) ==
  IF champs = <<>> THEN <<>>
  ELSE InsertByPicks(SortByPicks(SubSeq(champs, 1, Len(champs) - 1)), champs[Len(champs)])

\* c put into a list sorted by the key, after its equals.
InsertByKey(sorted, c, descending) ==
  LET k == Cardinality({i \in 1..Len(sorted) :
                         IF descending THEN sorted[i].key >= c.key
                         ELSE sorted[i].key <= c.key})
  IN SubSeq(sorted, 1, k) \o <<c>> \o SubSeq(sorted, k + 1, Len(sorted))

\* Line 896: sorted_champs.sort(key=sort_key_fn, reverse=descending); the
\* sort is stable in both directions.
RECURSIVE SortByKey(_, _)
SortByKey(champs, descending) ==
  IF champs = <<>> THEN <<>>
  ELSE InsertByKey(SortByKey(SubSeq(champs, 1, Len(champs) - 1), descending),
                   champs[Len(champs)], descending)

\* Lines 887-900: filter, sort by picks, sort by the key, the first five.
TopPickBanChamps(champs, num_games, descending) ==
  LET sorted == SortByKey(SortByPicks(FilterChamps(champs, num_games)), descending) IN
  SubSeq(sorted, 1, IF Len(sorted) < TopChamps THEN Len(sorted) ELSE TopChamps)

TopInit == [op |-> "idle", descending |-> TRUE, champs |-> <<>>, num_games |-> 0, top |-> <<>>]

InitTop ==
  /\ EngineVarsInit
  /\ calc = TopInit

\* GetTopPickBanChamps(region, sort_key_fn, descending) is called.
GetTopPickBanChampsStart ==
  /\ calc.op = "idle"
  /\ \E d \in BOOLEAN : calc' = [TopInit EXCEPT !.op = "flatten", !.descending = d]
  /\ UNCHANGED engineVars

\* Lines 873-881, one turn of `for champ_id, region_data in
\* self._champ_stats.items()`: the champion's flattened data.
GetTopPickBanChampsFlatten ==
  /\ calc.op = "flatten"
  /\ Len(calc.champs) < MaxChamps
  /\ \E p \in PickCounts, k \in KeyValues :
       calc' = [calc EXCEPT !.champs = Append(@, [id |-> Len(@) + 1, picks |-> p, key |-> k])]
  /\ UNCHANGED engineVars

\* Lines 883-900.
GetTopPickBanChampsReturn ==
  /\ calc.op = "flatten"
  /\ calc' = [calc EXCEPT !.op = "done", !.num_games = NumGames,
                          !.top = TopPickBanChamps(calc.champs, NumGames, calc.descending)]
  /\ UNCHANGED engineVars

\* ------------------------------------------------------------------ LoadEsports on upstream content

\* The matches a Grumble season schedule can list here: A against B, not yet
\* played, won by A, or tied, with its timestampSec.
ReloadGrumbleMatches ==
  {m \in [t1 : {"A"}, o1 : Outcomes, t2 : {"B"}, o2 : Outcomes, timestampSec : 1..MaxTime] :
     <<m.o1, m.o2>> \in {<<"", "">>, <<"VICTORY", "DEFEAT">>, <<"TIE", "TIE">>}}

\* The season schedules upstream can serve.
ReloadGrumbleSchedules ==
  UNION {[1..n -> ReloadGrumbleMatches] : n \in 0..MaxSchedule}

\* The raw match of the Rito bracket: both rosters named, with or without
\* standings.
ReloadRitoMatches == {r \in RawMatches : r.input = <<"r1", "r2">>}

\* What upstream serves, unchanged from one reload to the next: the Grumble
\* season schedule and the number of players each team fetch lists; the Rito
\* bracket's raw match and the scheduledTime of its scheduleItem (0: none).
UpstreamContents ==
  [schedule : ReloadGrumbleSchedules, players : 0..MaxPlayers,
   raw : ReloadRitoMatches, scheduledTime : 0..MaxTime]

\* GrumbleProvider._ParseSchedule, lines 427-466, from match k on: the
\* standings dict after the schedule.
RECURSIVE TallySchedule(_, _, _)
TallySchedule(schedule, k, st) ==
  IF k > Len(schedule) THEN st
  ELSE TallySchedule(schedule, k + 1,
         TallySide(TallySide(st, schedule[k].t1, schedule[k].o1),
                   schedule[k].t2, schedule[k].o2))

\* _ParseSchedule, lines 429-437 and 455-462: the match added for entry k of
\* the season schedule; its id is league, bracket and count.
GrumbleMatch(schedule, k) ==
  [match_id |-> <<"D1", "season", k>>, league |-> "D1", bracket |-> "season",
   blue |-> schedule[k].t1, red |-> schedule[k].t2,
   winner |-> SideWinner(SideWinner("", schedule[k].t1, schedule[k].o1),
                         schedule[k].t2, schedule[k].o2),
   timestamp |-> schedule[k].timestampSec, scheduled |-> TRUE]

\* The positions random.choice(['Fill', 'Feed']) can give the players of the
\* teams of a schedule.
PositionChoices(up) ==
  [{"A", "B"} \X (1..up.players) -> {"Fill", "Feed"}]

\* GrumbleProvider.LoadData, lines 504-513: the players added to a team.
GrumblePlayers(team, up, position) ==
  [i \in 1..up.players |->
     [summoner_name |-> i, team_id |-> team, position |-> position[<<team, i>>]]]

\* GrumbleProvider.LoadData: teams (in the order _ParseSchedule met them),
\* the season bracket's matches and standings.
GrumbleContent(up, position) ==
  LET st == TallySchedule(up.schedule, 1, <<>>) IN
  [teams |-> [i \in 1..Len(st) |->
                [team_id |-> st[i].team, players |-> GrumblePlayers(st[i].team, up, position)]],
   matches |-> [k \in 1..Len(up.schedule) |-> GrumbleMatch(up.schedule, k)],
   standings |-> RankStandings(SortByPoints(st))]

\* RitoProvider.LoadData: the match built from the raw match (lines 271-296)
\* and the time attached from the scheduleItem, if there is one (lines
\* 309-317).
RitoContent(up) ==
  LET m == RitoBuildMatch(up.raw) IN
  [teams |-> <<[team_id |-> "T1", players |-> <<>>], [team_id |-> "T2", players |-> <<>>]>>,
   matches |-> <<[match_id |-> <<"NA", "regular", 1>>, league |-> "NA", bracket |-> "regular",
                  blue |-> m.blue, red |-> m.red, winner |-> m.winner,
                  timestamp |-> IF up.scheduledTime = 0 THEN UnsetTimestamp
                                ELSE up.scheduledTime,
                  scheduled |-> up.scheduledTime # 0]>>,
   standings |-> <<>>]

\* m put into a list sorted by ascending timestamp, after its equals.
InsertByTimestamp(sorted, m) ==
  LET k == Cardinality({i \in 1..Len(sorted) : sorted[i].timestamp <= m.timestamp}) IN
  SubSeq(sorted, 1, k) \o <<m>> \o SubSeq(sorted, k + 1, Len(sorted))

\* Line 682: sorted(matches.values(), key=lambda x: x.timestamp), stable.
RECURSIVE SortByTimestamp(_)
SortByTimestamp(matches) ==
  IF matches = <<>> THEN <<>>
  ELSE InsertByTimestamp(SortByTimestamp(SubSeq(matches, 1, Len(matches) - 1)),
                         matches[Len(matches)])

\* LoadEsports, lines 654-699: the providers load, the engine assembles in
\* the providers' order and publishes; num_games counts the decided matches
\* (one played game each) per league.
Snapshot(up, position) ==
  LET g == GrumbleContent(up, position)
      r == RitoContent(up)
      matches == g.matches \o r.matches
  IN
  [teams |-> g.teams \o r.teams,
   leagues |-> ProviderOrder,
   brackets |-> <<[bracket_id |-> <<"D1", "season">>, standings |-> g.standings],
                  [bracket_id |-> <<"D1", "playoffs">>, standings |-> <<>>],
                  [bracket_id |-> <<"NA", "regular">>, standings |-> r.standings]>>,
   matches |-> matches,
   schedule |-> SortByTimestamp(matches),
   num_games |-> [l \in Providers |->
                    Cardinality({k \in 1..Len(matches) :
                                   matches[k].league = l /\ matches[k].winner # ""})]]

ReloadIdle == [op |-> "idle", snaps |-> <<>>]

InitReload ==
  /\ EngineVarsInit
  /\ calc = ReloadIdle

\* Upstream holds its content; it serves the same to every fetch from now on.
UpstreamServes ==
  /\ calc.op = "idle"
  /\ \E up \in UpstreamContents : calc' = [op |-> "serving", up |-> up, snaps |-> <<>>]
  /\ UNCHANGED engineVars

\* LoadEsports runs from LoadData to the swap; no poll comes between two runs.
LoadEsportsPublishes ==
  /\ calc.op = "serving"
  /\ Len(calc.snaps) <= MaxReloads
  /\ \E position \in PositionChoices(calc.up) :
       calc' = [calc EXCEPT !.snaps = Append(@, Snapshot(calc.up, position))]
  /\ UNCHANGED engineVars

\* ------------------------------------------------------------------ RitoProvider._FindActiveTournaments

\* A record of highlanderTournaments: with 'startDate' and 'endDate' (in
\* hours), or without 'startDate'.
TournamentDates ==
  {d \in [dated : BOOLEAN, startDate : 0..MaxTime, endDate : 0..MaxTime] :
     IF d.dated THEN 1 <= d.startDate /\ d.startDate <= d.endDate
     ELSE d.startDate = 0 /\ d.endDate = 0}

\* Python's None.
None == [id |-> 0, dated |-> FALSE, startDate |-> 0, endDate |-> 0]

\* arrow.Arrow.min: earlier than any start date.
ArrowMin == 0

FindInit ==
  [op |-> "idle", tournaments |-> <<>>, t_now |-> 0, active_tournaments |-> <<>>,
   tournament |-> None, newest_start_date |-> ArrowMin, result |-> <<>>]

InitFind ==
  /\ EngineVarsInit
  /\ calc = FindInit

\* Lines 352-355: the locals, t_now = arrow.utcnow().
FindActiveTournamentsStart ==
  /\ calc.op = "idle"
  /\ \E now \in 1..MaxTime : calc' = [FindInit EXCEPT !.op = "loop", !.t_now = now]
  /\ UNCHANGED engineVars

\* Lines 356-365, one turn of `for t in tournaments` on record t.
FindActiveTournamentsTurn(c, t) ==
  IF ~t.dated THEN c
  ELSE LET newer == t.startDate > c.newest_start_date IN
       [c EXCEPT !.newest_start_date = IF newer THEN t.startDate ELSE @,
                 !.tournament = IF newer THEN t ELSE @,
                 !.active_tournaments =
                    IF t.startDate <= c.t_now /\ c.t_now <= t.endDate THEN Append(@, t) ELSE @]

\* The loop meets the next record of the list.
FindActiveTournamentsNext ==
  /\ calc.op = "loop"
  /\ Len(calc.tournaments) < MaxTournaments
  /\ \E d \in TournamentDates :
       LET t == [id |-> Len(calc.tournaments) + 1, dated |-> d.dated,
                 startDate |-> d.startDate, endDate |-> d.endDate]
       IN calc' = [FindActiveTournamentsTurn(calc, t) EXCEPT !.tournaments = Append(@, t)]
  /\ UNCHANGED engineVars

\* Line 366: return active_tournaments or [tournament].
FindActiveTournamentsReturn ==
  /\ calc.op = "loop"
  /\ calc' = [calc EXCEPT !.op = "done",
                          !.result = IF calc.active_tournaments # <<>>
                                     THEN calc.active_tournaments
                                     ELSE <<calc.tournament>>]
  /\ UNCHANGED engineVars

\* ------------------------------------------------------------------ GrumbleProvider.UpdateMatches on a schedule

\* The entries a Grumble season schedule can list when it is fetched again:
\* A against B (or against a side with no ref.id), any outcome on either side.
UpdateGrumbleMatches ==
  [t1 : {"A"}, o1 : Outcomes, t2 : {"B", ""}, o2 : Outcomes]

\* The season schedules LoadData can have parsed before the calls: every
\* match at the first hour.
UpdateGrumbleSchedules ==
  {sch \in ReloadGrumbleSchedules : \A k \in 1..Len(sch) : sch[k].timestampSec = 1}

\* GrumbleProvider._UpdateSchedule, lines 524-537, for one entry of the
\* schedule whose match id is in self._matches: the match afterwards and
\* whether it is appended to updated_matches.
GrumbleUpdateMatch(old, raw) ==
  LET w == SideWinner(SideWinner(old.winner, raw.t1, raw.o1), raw.t2, raw.o2) IN
  IF old.winner # "" THEN [match |-> old, returned |-> FALSE]
  ELSE [match |-> [old EXCEPT !.winner = w], returned |-> w # ""]

\* GrumbleProvider.LoadData returned: teams, season matches and standings
\* built from the season schedule upstream served (no player is listed).
GrumbleLoadDataReturn ==
  /\ calc.op = "idle"
  /\ \E schedule \in UpdateGrumbleSchedules :
       LET up == [schedule |-> schedule, players |-> 0] IN
       \E position \in PositionChoices(up) :
         LET content == GrumbleContent(up, position) IN
         calc' = [op |-> "gLoaded", content |-> content, before |-> content, i |-> 1,
                  updated |-> <<>>, returned |-> <<>>]
  /\ UNCHANGED engineVars

\* UpdateMatches, lines 541-546: the season bracket is fetched; a failed fetch
\* raises on response['schedule'].
GrumbleUpdateMatchesStart ==
  /\ calc.op \in {"gLoaded", "gUpdated", "gRaised"}
  /\ \E fetched \in BOOLEAN :
       calc' = [calc EXCEPT !.op = IF fetched THEN "gSeason" ELSE "gRaised",
                            !.before = calc.content, !.i = 1,
                            !.updated = <<>>, !.returned = <<>>]
  /\ UNCHANGED engineVars

\* _UpdateSchedule on the season bracket, one turn of `for match in
\* week['matches']`: entry number i; self._matches.get(match_id) is None when
\* LoadData built no match with that number.
GrumbleUpdateScheduleMatch ==
  /\ calc.op = "gSeason"
  /\ calc.i <= MaxSchedule
  /\ \E raw \in UpdateGrumbleMatches :
       IF calc.i > Len(calc.content.matches)
       THEN calc' = [calc EXCEPT !.i = @ + 1]
       ELSE LET old == calc.content.matches[calc.i]
                r == GrumbleUpdateMatch(old, raw)
            IN
            calc' = [calc EXCEPT !.content.matches[calc.i] = r.match,
                                 !.updated = IF r.returned THEN Append(@, calc.i) ELSE @,
                                 !.i = @ + 1]
  /\ UNCHANGED engineVars

\* UpdateMatches, lines 548-555: the season schedule is exhausted, the
\* playoffs bracket is fetched (a failed fetch raises and the list is lost);
\* no playoffs match was loaded, so its _UpdateSchedule adds nothing and the
\* list is returned.
GrumbleUpdateMatchesReturn ==
  /\ calc.op = "gSeason"
  /\ \E fetched \in BOOLEAN :
       calc' = [calc EXCEPT !.op = IF fetched THEN "gUpdated" ELSE "gRaised",
                            !.returned = IF fetched THEN calc.updated ELSE <<>>]
  /\ UNCHANGED engineVars

\* ------------------------------------------------------------------ LoadEsports: statistics scraping

\* EsportsLib.__init__, lines 567-582: every provider is constructed with
\* stats_enabled=True.
StatsEnabled(p) == p \in Providers

\* What the hash field of a game holds: nothing, the game's hash (Rito's
\* gameHash, Grumble's tournamentCode), or Rito's other id of the game, which
\* LoadData stores there until it has fetched the hash.
Hashes == {"", "hash", "id"}

\* A Rito raw match with its games: whether it has standings, the top group
\* of its result, and for each game whether matchDetails maps it to a hash.
ScrapeRitoRaws ==
  {r \in [standings : BOOLEAN, top : {<<>>, <<"r1">>},
          mapped : UNION {[1..n -> BOOLEAN] : n \in 0..MaxGames}] :
     ~r.standings => r.top = <<>>}

\* RitoProvider.LoadData, lines 282-306: the match's winner and the hash field
\* of its games.  The field holds game['id'] first; only a match with
\* standings has it cleared and set from the gameIdMappings.
RitoLoadGames(raw) ==
  [league |-> "NA",
   winner |-> IF raw.standings THEN WinnerFromTopGroup(raw.top, "") ELSE "",
   games |-> [i \in 1..Len(raw.mapped) |->
                IF ~raw.standings THEN "id"
                ELSE IF raw.mapped[i] THEN "hash" ELSE ""]]

\* A Grumble schedule entry with its games: the outcome of team A, and for
\* each game whether it has a ref.tournamentCode.
ScrapeGrumbleRaws ==
  [o1 : {"", "VICTORY", "TIE"},
   code : UNION {[1..n -> BOOLEAN] : n \in 0..MaxGames}]

\* GrumbleProvider._ParseSchedule, lines 430-462: the match's winner and the
\* hash field of its games.
GrumbleLoadGames(raw) ==
  [league |-> "D1",
   winner |-> SideWinner("", "A", raw.o1),
   games |-> [i \in 1..Len(raw.code) |-> IF raw.code[i] THEN "hash" ELSE ""]]

\* _ScrapePickBanData, lines 934-974, for one game: num_games and the picks
\* tallied for the league (one participant per game) afterwards, and whether
\* the call raised (the stats fetch answered None).
ScrapeGame(league, hash, fetched, num, picks) ==
  IF hash = "" THEN [num |-> num, picks |-> picks, raised |-> FALSE]
  ELSE IF ~fetched
       THEN [num |-> [num EXCEPT ![league] = @ + 1], picks |-> picks, raised |-> TRUE]
  ELSE [num |-> [num EXCEPT ![league] = @ + 1],
        picks |-> [picks EXCEPT ![league] = @ + 1], raised |-> FALSE]

NoGame == [visited |-> FALSE, league |-> "D1", winner |-> "", hash |-> "",
           num |-> 0, picks |-> 0]

NoScrapeMatch == [league |-> "D1", winner |-> "", games |-> <<>>]

\* LoadEsports, lines 658-663: fresh counters.
ScrapeInit ==
  [op |-> "idle", n |-> 0, match |-> NoScrapeMatch, i |-> 1,
   num_games |-> [p \in Providers |-> 0], picks |-> [p \in Providers |-> 0],
   last |-> NoGame]

InitScrape ==
  /\ EngineVarsInit
  /\ calc = ScrapeInit

\* provider.LoadData() has built a match of a Rito bracket.
ScrapeRitoLoadData ==
  /\ calc.op \in {"idle", "visited"}
  /\ calc.n < MaxMatches
  /\ \E raw \in ScrapeRitoRaws :
       calc' = [calc EXCEPT !.op = "loaded", !.n = @ + 1, !.match = RitoLoadGames(raw)]
  /\ UNCHANGED engineVars

\* provider.LoadData() has built a match of the Grumble season.
ScrapeGrumbleLoadData ==
  /\ calc.op \in {"idle", "visited"}
  /\ calc.n < MaxMatches
  /\ \E raw \in ScrapeGrumbleRaws :
       calc' = [calc EXCEPT !.op = "loaded", !.n = @ + 1, !.match = GrumbleLoadGames(raw)]
  /\ UNCHANGED engineVars

\* The poll thread's UpdateMatches finds the match decided upstream before
\* the reload thread reaches it: lines 341-346 (Rito) and 533-536 (Grumble)
\* set the winner of a match that has none and touch nothing else.
ScrapeUpdateMatches ==
  /\ calc.op = "loaded"
  /\ calc.match.winner = ""
  /\ \E w \in {"A", "TIE"} :
       calc' = [calc EXCEPT !.match.winner = w]
  /\ UNCHANGED engineVars

\* LoadEsports, lines 669-674: the match is reached; it is scraped when it
\* has a winner and its league is stats_enabled.
LoadEsportsVisitMatch ==
  /\ calc.op = "loaded"
  /\ calc' = [calc EXCEPT
                !.op = IF calc.match.winner # "" /\ StatsEnabled(calc.match.league)
                       THEN "scraping" ELSE "visited",
                !.i = 1,
                !.last = [visited |-> FALSE, league |-> calc.match.league,
                          winner |-> calc.match.winner, hash |-> "",
                          num |-> calc.num_games[calc.match.league],
                          picks |-> calc.picks[calc.match.league]]]
  /\ UNCHANGED engineVars

\* _ScrapePickBanData, one turn of `for game in match.games`.
ScrapePickBanDataGame ==
  /\ calc.op = "scraping"
  /\ calc.i <= Len(calc.match.games)
  /\ \E fetched \in BOOLEAN :
       LET r == ScrapeGame(calc.match.league, calc.match.games[calc.i], fetched,
                           calc.num_games, calc.picks)
       IN
       calc' = [calc EXCEPT !.op = IF r.raised THEN "raised" ELSE "scraping",
                            !.i = @ + 1,
                            !.num_games = r.num, !.picks = r.picks,
                            !.last = [visited |-> TRUE, league |-> calc.match.league,
                                      winner |-> calc.match.winner,
                                      hash |-> calc.match.games[calc.i],
                                      num |-> calc.num_games[calc.match.league],
                                      picks |-> calc.picks[calc.match.league]]]
  /\ UNCHANGED engineVars

\* _ScrapePickBanData returns: the games are exhausted.
ScrapePickBanDataReturn ==
  /\ calc.op = "scraping"
  /\ calc.i > Len(calc.match.games)
  /\ calc' = [calc EXCEPT !.op = "visited"]
  /\ UNCHANGED engineVars

\* ------------------------------------------------------------------ EsportsLib stat queries

\* The champion ids the game library knows; 0 stands for a name that is no
\* champion's (GetChampId gives None).
StatChamps == {1, 2}

\* The regions a stat query can ask for: a league id, or 'all'.
StatRegions == Providers \cup {"all"}

\* self._champ_stats, a defaultdict(lambda: defaultdict(Counter)): its keys
\* in insertion order, and the (champion, league) pairs that hold a Counter
\* (one pick each).  As _ScrapePickBanData builds it, every key has a pair.
ScrapedStats ==
  {[order |-> o, data |-> d] :
     d \in SUBSET (StatChamps \X Providers),
     o \in {<<>>, <<1>>, <<2>>, <<1, 2>>, <<2, 1>>}}

\* The dicts LoadEsports can publish: the keys are the champions with data.
PublishedStats ==
  {st \in ScrapedStats :
     /\ Range(st.order) = {c \in StatChamps : \E r \in Providers : <<c, r>> \in st.data}
     /\ Len(st.order) = Cardinality(Range(st.order))}

\* self._num_games after the scrape: one game per league that has data.
NumGamesOf(st) ==
  [p \in Providers |-> IF \E c \in StatChamps : <<c, p>> \in st.data THEN 1 ELSE 0]

\* sum(v for k, v in self._num_games.items() if region in ('all', k))
SumNumGames(num, region) ==
  IF region = "all" THEN num["D1"] + num["NA"] ELSE num[region]

\* self._champ_stats[champ_id], line 840: defaultdict.__getitem__ adds the
\* key with an empty value when it is missing.
ChampStatsGetItem(st, champ) ==
  IF champ \in Range(st.order) THEN st
  ELSE [st EXCEPT !.order = Append(@, champ)]

\* x[1]['picks'] of a champion's data flattened for a region.
FlattenedPicks(st, champ, region) ==
  Cardinality({r \in Providers : <<champ, r>> \in st.data /\ region \in {"all", r}})

\* GetChampPickBanRate, lines 830-849: the dict afterwards and the answer.
ChampPickBanRate(st, num, region, champ) ==
  IF champ = 0 THEN [stats |-> st, picks |-> -1, num_games |-> -1]
  ELSE [stats |-> ChampStatsGetItem(st, champ),
        picks |-> FlattenedPicks(st, champ, region),
        num_games |-> SumNumGames(num, region)]

\* GetUniqueChampCount, lines 902-911: len(unique).
UniqueChampCount(st, region) ==
  Cardinality({c \in Range(st.order) : region = "all" \/ <<c, region>> \in st.data})

\* GetTopPickBanChamps(region, key=picks), lines 868-900.
StatsTopPickBanChamps(st, num, region) ==
  TopPickBanChamps([i \in 1..Len(st.order) |->
                      [id |-> st.order[i], picks |-> FlattenedPicks(st, st.order[i], region),
                       key |-> FlattenedPicks(st, st.order[i], region)]],
                   SumNumGames(num, region), TRUE)

\* EsportsLib.__init__, lines 591-597: empty stats, no query answered.
StatsInit ==
  [op |-> "idle", stats |-> [order |-> <<>>, data |-> {}],
   num_games |-> [p \in Providers |-> 0],
   unique |-> [r \in StatRegions |-> {}], top |-> [r \in StatRegions |-> {}],
   rate |-> [picks |-> -1, num_games |-> -1]]

InitStats ==
  /\ EngineVarsInit
  /\ calc = StatsInit

\* LoadEsports publishes fresh stats, lines 693-698.
StatsLoadEsports ==
  /\ calc.op = "idle"
  /\ \E st \in PublishedStats :
       calc' = [StatsInit EXCEPT !.op = "published", !.stats = st,
                                 !.num_games = NumGamesOf(st)]
  /\ UNCHANGED engineVars

\* GetChampPickBanRate(region, champ).
StatsGetChampPickBanRate ==
  /\ calc.op = "published"
  /\ \E region \in StatRegions, champ \in StatChamps \cup {0} :
       LET r == ChampPickBanRate(calc.stats, calc.num_games, region, champ) IN
       calc' = [calc EXCEPT !.stats = r.stats,
                            !.rate = [picks |-> r.picks, num_games |-> r.num_games]]
  /\ UNCHANGED engineVars

\* GetTopPickBanChamps(region, picks): the answer is noted per region.
StatsGetTopPickBanChamps ==
  /\ calc.op = "published"
  /\ \E region \in StatRegions :
       calc' = [calc EXCEPT !.top[region] =
                  @ \cup {StatsTopPickBanChamps(calc.stats, calc.num_games, region)}]
  /\ UNCHANGED engineVars

\* GetUniqueChampCount(region): the answer is noted per region.
StatsGetUniqueChampCount ==
  /\ calc.op = "published"
  /\ \E region \in StatRegions :
       calc' = [calc EXCEPT !.unique[region] =
                  @ \cup {UniqueChampCount(calc.stats, region)}]
  /\ UNCHANGED engineVars

\* ------------------------------------------------------------------ specifications

\* The steps of a LoadEsports call after it started.
LoadEsportsStep ==
  \/ \E t \in Reloaders : LoadDataBegin(t)
  \/ \E t \in Reloaders : LoadDataEnd(t)
  \/ \E t \in Reloaders : AssembleBrackets(t)
  \/ \E t \in Reloaders : AssembleTeams(t)
  \/ \E t \in Reloaders : Swap(t)
  \/ \E t \in Reloaders : LoadEsportsReturn(t)

\* Reloads and the callbacks registered with the engine.
NextCallbacks ==
  \/ LoadEsportsSubmitted
  \/ ReloadData
  \/ LoadEsportsStep
  \/ RegisterCallback
  \/ \E t \in Reloaders : RunCallback(t)

SpecCallbacks == Init /\ [][NextCallbacks]_vars

\* Reloads and polls against an upstream whose endpoints may fail.
NextFetch ==
  \/ \E p \in Providers : UpstreamDecide(p)
  \/ LoadEsportsSubmitted
  \/ ReloadData
  \/ LoadEsportsStep
  \/ UpdateEsportsMatchesStart
  \/ UpdateMatchesBegin
  \/ UpdateMatchesEnd
  \/ UpdateEsportsMatchesReturn

SpecFetch == Init /\ [][NextFetch]_vars

\* A reader's queries against reloads.
NextRead ==
  \/ LoadEsportsSubmitted
  \/ ReloadData
  \/ LoadEsportsStep
  \/ GetScheduleBegin
  \/ GetResultsBegin
  \/ ReadSchedule
  \/ LoopStep
  \/ LoopEnd
  \/ GetStandingsBegin
  \/ GetStandingsBrackets

SpecRead == Init /\ [][NextRead]_vars

\* Polls racing reloads, and the results query that follows them.
NextPoll ==
  \/ \E p \in Providers : UpstreamDecide(p)
  \/ LoadEsportsSubmitted
  \/ ReloadData
  \/ LoadEsportsStep
  \/ UpdateEsportsMatchesStart
  \/ UpdateMatchesBegin
  \/ UpdateMatchesEnd
  \/ UpdateEsportsMatchesReturn
  \/ GetResultsBegin
  \/ ReadSchedule
  \/ LoopStep
  \/ LoopEnd

SpecPoll == Init /\ [][NextPoll]_vars

\* A Rito provider loading and polling arbitrary raw matches.
NextRito ==
  \/ RitoLoadDataStart
  \/ RitoLoadDataMatch
  \/ RitoLoadDataReturn
  \/ RitoUpdateMatchesStart
  \/ RitoUpdateMatchesMatch
  \/ RitoUpdateMatchesReturn

SpecRito == InitRito /\ [][NextRito]_vars

\* The standings the providers build for a bracket.
NextStandings ==
  \/ GrumbleParseMatch
  \/ GrumbleParseScheduleReturn
  \/ RitoGroupStandings
  \/ RitoFlatStandings

SpecStandings == InitStandings /\ [][NextStandings]_vars

\* A schedule or results query walking one snapshot.
NextQuery ==
  \/ GetScheduleStart
  \/ GetResultsStart
  \/ QueryMatch
  \/ QueryReturn

SpecQuery == InitQuery /\ [][NextQuery]_vars

\* GetTopPickBanChamps on the statistics of a snapshot.
NextTop ==
  \/ GetTopPickBanChampsStart
  \/ GetTopPickBanChampsFlatten
  \/ GetTopPickBanChampsReturn

SpecTop == InitTop /\ [][NextTop]_vars

\* Reloads against an upstream that does not change.
NextReload ==
  \/ UpstreamServes
  \/ LoadEsportsPublishes

SpecReload == InitReload /\ [][NextReload]_vars

\* _FindActiveTournaments on a list of tournament records.
NextFind ==
  \/ FindActiveTournamentsStart
  \/ FindActiveTournamentsNext
  \/ FindActiveTournamentsReturn

SpecFind == InitFind /\ [][NextFind]_vars

\* A provider's LoadData and the UpdateMatches calls that follow it, on
\* upstream content: the Rito bracket's raw matches, the Grumble season
\* schedule.
NextUpdate ==
  \/ RitoLoadDataStart
  \/ RitoLoadDataMatch
  \/ RitoLoadDataReturn
  \/ RitoUpdateMatchesStart
  \/ RitoUpdateMatchesMatch
  \/ RitoUpdateMatchesReturn
  \/ GrumbleLoadDataReturn
  \/ GrumbleUpdateMatchesStart
  \/ GrumbleUpdateScheduleMatch
  \/ GrumbleUpdateMatchesReturn

SpecUpdate == InitRito /\ [][NextUpdate]_vars

\* The matches LoadEsports walks after the providers' LoadData, with a poll
\* in between, and the games it scrapes.
NextScrape ==
  \/ ScrapeRitoLoadData
  \/ ScrapeGrumbleLoadData
  \/ ScrapeUpdateMatches
  \/ LoadEsportsVisitMatch
  \/ ScrapePickBanDataGame
  \/ ScrapePickBanDataReturn

SpecScrape == InitScrape /\ [][NextScrape]_vars

\* Stat queries between two reloads.
NextStats ==
  \/ StatsLoadEsports
  \/ StatsGetChampPickBanRate
  \/ StatsGetTopPickBanChamps
  \/ StatsGetUniqueChampCount

SpecStats == InitStats /\ [][NextStats]_vars

\* LoadEsports calls that may overlap: the job of __init__ and ReloadData.
NextSnapshot ==
  \/ \E p \in Providers : UpstreamDecide(p)
  \/ LoadEsportsSubmitted
  \/ ReloadData
  \/ ReloadDataWhileLoading
  \/ LoadEsportsStep

SpecSnapshot == Init /\ [][NextSnapshot]_vars

\* Overlapping LoadEsports calls and polls.
NextLocks ==
  \/ LoadEsportsSubmitted
  \/ ReloadData
  \/ ReloadDataWhileLoading
  \/ LoadEsportsStep
  \/ UpdateEsportsMatchesStart
  \/ UpdateMatchesBegin
  \/ UpdateMatchesEnd
  \/ UpdateEsportsMatchesReturn

SpecLocks == Init /\ [][NextLocks]_vars

\* ------------------------------------------------------------------ claims: the engine under concurrency

\* No call has raised so far.
NothingRaised ==
  /\ \A t \in Reloaders : reload[t].err = ""
  /\ poll.err = ""
  /\ reader.err = ""

\* C1: a read query uses one published snapshot only: every field it read
\* (teams and leagues, schedule, brackets) was read from the same swap's
\* snapshot, and the brackets GetStandings walks are the ones of the snapshot
\* its league came from.  (Stated for runs in which no call raised.)
C1_QueryReadsOneSnapshot ==
  (NothingRaised /\ reader.pc = "done") =>
    /\ Cardinality(reader.epochs) <= 1
    /\ reader.kind = "standings" => reader.used \subseteq reader.snap

\* C2: a GetResults('All') call that starts after a poll set a match's winner
\* lists that match with that winner, whatever a reload is doing.  (Stated for
\* runs in which no call raised.)
C2_PolledWinnerIsListed ==
  (NothingRaised /\ reader.kind = "results" /\ reader.pc = "done") =>
    \A h \in reader.must :
      \E i \in 1..Len(reader.results) :
        /\ reader.results[i][1][1] = h[1]
        /\ reader.results[i][2] = winner[h]

\* C3: a read query never waits for a lock that a reload holds.
C3_QueryNeverWaitsForReload ==
  ~(reader.pc = "brackets" /\ prov[reader.league].lock \in Reloaders)

\* C4: once a LoadEsports call that swapped has ended, it has invoked every
\* callback that was registered at the swap, once each, in registration order,
\* whether or not one of them raised.
C4_EveryCallbackInvoked ==
  \A t \in Reloaders :
    (reload[t].pc = "done" \/ (reload[t].pc = "raised" /\ reload[t].err = "callback")) =>
      /\ Len(reload[t].cbLog) >= reload[t].cbSeen
      /\ \A i \in 1..reload[t].cbSeen : reload[t].cbLog[i] = callbacks[i]

\* C5: after a LoadData or UpdateMatches call whose league-level fetch failed,
\* a provider that held loaded data holds exactly what it held before the call.
C5_FailedFetchLeavesState ==
  \A p \in Providers :
    (hist.failed[p] # "" /\ hist.prev[p].matches # 0) => ProviderState(p) = hist.prev[p]

\* C6: no failed fetch makes LoadEsports or UpdateEsportsMatches raise.
C6_FetchFailureNeverRaises ==
  /\ \A t \in Reloaders : reload[t].err # "fetch"
  /\ poll.err # "fetch"

\* C7: the matches an in-flight poll has collected to return are never
\* matches of a snapshot that a swap has superseded.  (Stated for runs in
\* which no call raised.)
C7_PollReturnsNoSupersededMatch ==
  (NothingRaised /\ poll.pc \in {"upd", "updFetch", "ret"}) =>
    \A i \in 1..Len(poll.updated) : poll.updated[i] \notin hist.retired

\* ------------------------------------------------------------------ claims: RitoProvider

\* The match UpdateMatches has just looked at, before and after.
JustPatched == calc.op = "updating" /\ calc.last.id # 0

\* C8: UpdateMatches returns a match iff the call changed its winner or its
\* teams.
C8_ReturnsExactlyTheChanged ==
  JustPatched =>
    ((calc.last.id \in Range(calc.updated)) <=> (calc.matches[calc.last.id] # calc.last.old))

\* The winner the claim prescribes for a top group.
PrescribedWinner(top) ==
  IF Len(top) = 1 THEN RosterTeam(top[1]) ELSE IF Len(top) > 1 THEN "TIE" ELSE ""

\* C9: a raw match with standings gives the match built by LoadData, and the
\* undecided match patched by UpdateMatches, the winner of its top group: the
\* team of a group of one, 'TIE' for a larger group, none for an empty group.
C9_WinnerFromTopGroup ==
  /\ (calc.op = "loading" /\ calc.last.id # 0 /\ calc.last.raw.standings
        /\ calc.matches[calc.last.id].present) =>
       calc.matches[calc.last.id].winner = PrescribedWinner(calc.last.raw.top)
  /\ (JustPatched /\ calc.last.raw.standings
        /\ calc.last.old.present /\ calc.last.old.winner = "") =>
       calc.matches[calc.last.id].winner = PrescribedWinner(calc.last.raw.top)

\* C9 happens: a poll has turned an undecided match into a tie, and a load
\* built a match won by one team.
C9_Witness ==
  /\ JustPatched
  /\ calc.last.old.present /\ calc.last.old.winner = ""
  /\ calc.last.raw.standings /\ Len(calc.last.raw.top) = 2
  /\ calc.matches[calc.last.id].winner = "TIE"
  /\ \E k \in 1..MaxMatches : k # calc.last.id /\ calc.matches[k].winner = "T1"

\* ------------------------------------------------------------------ claims: standings

\* x put into a list sorted by ascending rank, after its equals.
InsertByRank(sorted, x) ==
  LET k == Cardinality({i \in 1..Len(sorted) : sorted[i].rank <= x.rank}) IN
  SubSeq(sorted, 1, k) \o <<x>> \o SubSeq(sorted, k + 1, Len(sorted))

\* The standings listed in rank order, as GetStandings lists them.
RECURSIVE ListedByRank(_)
ListedByRank(st) ==
  IF st = <<>> THEN <<>>
  ELSE InsertByRank(ListedByRank(SubSeq(st, 1, Len(st) - 1)), st[Len(st)])

\* Listed in rank order the points never increase, and equal points share a rank.
RankingInvariant(st) ==
  LET l == ListedByRank(st) IN
  /\ \A i \in 1..(Len(l) - 1) : l[i].points >= l[i + 1].points
  /\ \A i, j \in 1..Len(l) : l[i].points = l[j].points => l[i].rank = l[j].rank

\* C10 as claimed: the ranking invariant holds for the standings of every
\* bracket, Grumble's and Rito's, with or without standings groups.
C10_RankingInvariantEveryProvider ==
  calc.op = "done" => RankingInvariant(calc.standings)

\* C10 as amended: the ranking invariant holds for the standings of every
\* Grumble bracket.
C10_RankingInvariantGrumble ==
  (calc.op = "done" /\ calc.kind = "grumble") => RankingInvariant(calc.standings)

\* C10 happens: Grumble standings of three teams, two of them sharing a rank
\* behind the leader.
C10_Witness ==
  /\ calc.op = "done" /\ calc.kind = "grumble"
  /\ Len(calc.standings) = 3
  /\ calc.standings[1].rank = 1
  /\ calc.standings[2].rank = 2
  /\ calc.standings[3].rank = 2

\* ------------------------------------------------------------------ claims: Grumble scoring

\* The entries of the standings with strictly more points than entry i.
Ahead(st, i) == {j \in 1..Len(st) : st[j].points > st[i].points}

\* C11: Grumble standings count wins, ties and losses per team with 3 points
\* for a win, 1 for a tie and none for a loss: every entry's points are
\* 3 * wins + ties, a team is counted at most once per match, and a match whose
\* winner is a team counts as a win of that team; once ranked, the list runs by
\* descending points and a team's rank is 1 plus the number of teams with
\* strictly more points.
C11_GrumbleScoring ==
  calc.kind = "grumble" =>
    LET st == calc.standings IN
    /\ \A i \in 1..Len(st) :
         /\ st[i].points = 3 * st[i].wins + st[i].ties
         /\ st[i].wins + st[i].ties + st[i].losses <= calc.n
         /\ Cardinality({k \in 1..Len(calc.winners) : calc.winners[k] = st[i].team})
              <= st[i].wins
    /\ calc.op = "done" =>
         /\ \A i \in 1..Len(st) : st[i].rank = 1 + Cardinality(Ahead(st, i))
         /\ \A i \in 1..(Len(st) - 1) : st[i].points >= st[i + 1].points

\* C11 happens: A beat B and C tied D; A is first with 3 points, C and D share
\* rank 2 with 1 point each, B is fourth with none; the matches' winners are A
\* and 'TIE'.
C11_Witness ==
  /\ calc.op = "done" /\ calc.kind = "grumble"
  /\ calc.winners = <<"A", "TIE">>
  /\ calc.standings =
       << [team |-> "A", rank |-> 1, wins |-> 1, losses |-> 0, ties |-> 0, points |-> 3],
          [team |-> "C", rank |-> 2, wins |-> 0, losses |-> 0, ties |-> 1, points |-> 1],
          [team |-> "D", rank |-> 2, wins |-> 0, losses |-> 0, ties |-> 1, points |-> 1],
          [team |-> "B", rank |-> 4, wins |-> 0, losses |-> 1, ties |-> 0, points |-> 0] >>

\* ------------------------------------------------------------------ claims: GetSchedule and GetResults

\* The walk has looked at a match.
Visited == calc.op \in {"loop", "break"} /\ calc.last.pos # 0

\* The positions of the matches listed so far.
Listed == {calc.out[k].pos : k \in 1..Len(calc.out)}

\* The last match the walk looked at names the qualifier (or it is 'All').
LastMatchesQualifier ==
  \/ calc.qualifier = "All"
  \/ calc.qualifier \in {calc.last.match.league, calc.last.match.blue, calc.last.match.red}

\* C12 as claimed: a query string that the team index resolves gives the
\* team's id as the qualifier, whether or not the league index resolves it too.
C12_TeamTakesPriority ==
  (calc.op \in {"loop", "break"} /\ TeamIndex(calc.subcommand) # "") =>
    calc.qualifier = TeamIndex(calc.subcommand)

\* C12 as amended: the league index has priority.  A string the league index
\* resolves gives the league's id (and the query is not a team query), else a
\* string the team index resolves gives the team's id, else 'All'; and the
\* matches listed are matches of that qualifier.
C12_LeagueTakesPriority ==
  /\ calc.op \in {"loop", "break"} =>
       /\ LeagueIndex(calc.subcommand) # "" =>
            (calc.qualifier = LeagueIndex(calc.subcommand) /\ ~calc.is_team)
       /\ (LeagueIndex(calc.subcommand) = "" /\ TeamIndex(calc.subcommand) # "") =>
            (calc.qualifier = TeamIndex(calc.subcommand) /\ calc.is_team)
       /\ (LeagueIndex(calc.subcommand) = "" /\ TeamIndex(calc.subcommand) = "") =>
            calc.qualifier = "All"
  /\ (Visited /\ calc.last.pos \in Listed) => LastMatchesQualifier

\* C12 happens: the string names team T3 and league NA; an open match of T3
\* in the other league is passed over, the qualifier being NA.
C12_Witness ==
  /\ Visited /\ calc.kind = "schedule" /\ calc.subcommand = "T3NA"
  /\ calc.qualifier = "NA"
  /\ calc.last.match.league = "D1" /\ calc.last.match.red = "T3"
  /\ calc.last.match.winner = "" /\ calc.last.match.timestamp > calc.now
  /\ calc.last.pos \notin Listed

\* C13: GetSchedule with qualifier 'All' and include_playoffs false lists no
\* match of a playoffs bracket; with include_playoffs true an open, upcoming
\* playoffs match is listed.
C13_PlayoffsOnlyOnRequest ==
  (Visited /\ calc.kind = "schedule" /\ calc.qualifier = "All" /\ calc.last.match.playoffs) =>
    /\ ~calc.include_playoffs => calc.last.pos \notin Listed
    /\ (calc.include_playoffs /\ calc.last.match.winner = ""
          /\ calc.last.match.timestamp + calc.last.match.games > calc.now) =>
         calc.last.pos \in Listed

\* C13 happens: an open, upcoming playoffs match is passed over by
\* GetSchedule('All', include_playoffs=False).
C13_Witness ==
  /\ Visited /\ calc.kind = "schedule" /\ calc.qualifier = "All"
  /\ ~calc.include_playoffs /\ calc.last.match.playoffs
  /\ calc.last.match.winner = "" /\ calc.last.match.timestamp > calc.now
  /\ calc.last.pos \notin Listed

\* A match is not over yet, as the claim has it: no time was attached to it,
\* or its time plus an hour per known game is later than now.
NotOverYet(m, now) == m.timestamp = UnsetTimestamp \/ m.timestamp + m.games > now

\* C14: GetSchedule lists, in schedule order and up to num_games, the matches
\* that name the qualifier, have no winner and are not over yet (where the
\* playoffs flag lets the match through); it lists a match it looks at iff the
\* match is one of those, never returns more than num_games lines, and returns
\* the 'no games' line with the qualifier 'No' when it listed none.
C14_ScheduleListsTheOpenMatches ==
  calc.kind = "schedule" =>
    /\ (Visited /\ (calc.include_playoffs \/ ~calc.last.match.playoffs)) =>
         (calc.last.pos \in Listed <=>
            (LastMatchesQualifier /\ calc.last.match.winner = ""
               /\ NotOverYet(calc.last.match, calc.now)))
    /\ \A j, k \in 1..Len(calc.out) : j < k => calc.out[j].pos < calc.out[k].pos
    /\ calc.op = "done" =>
         /\ Len(calc.out) \in 1..calc.num_games
         /\ (calc.qualifier = "No") <=> (calc.out = <<NoGames>>)

\* C15: GetResults lists a match it looks at iff the match has a winner and
\* names the qualifier (or the qualifier is 'All'); it lists latest first, at
\* most num_games matches, stops early only at num_games, and leaves the
\* engine's schedule in its order.
C15_ResultsLatestFirst ==
  calc.kind = "results" =>
    /\ Visited =>
         (calc.last.pos \in Listed <=> (LastMatchesQualifier /\ calc.last.match.winner # ""))
    /\ \A j, k \in 1..Len(calc.out) : j < k => calc.out[j].pos > calc.out[k].pos
    /\ Len(calc.out) <= calc.num_games
    /\ calc.op = "done" => (Len(calc.out) = calc.num_games \/ calc.i > Len(calc.schedule))
    /\ calc.schedule = ScheduleOf(Len(calc.schedule))

\* C15 happens: two decided matches, the later one listed first.
C15_Witness ==
  /\ calc.kind = "results" /\ calc.op = "done"
  /\ Len(calc.out) = 2
  /\ calc.out[1].pos = 2 /\ calc.out[2].pos = 1
  /\ calc.out[1].shown # ""

\* ------------------------------------------------------------------ claims: GetTopPickBanChamps

\* Champion a stands before champion b: by the key in the direction asked for,
\* and by picks (more first) among equal keys; TRUE also when they are level.
NotBehind(a, b, descending) ==
  \/ IF descending THEN a.key > b.key ELSE a.key < b.key
  \/ a.key = b.key /\ a.picks >= b.picks

\* C16: GetTopPickBanChamps returns the game count and at most five champions,
\* all of them champions of the statistics picked in at least 5% of the games
\* (5 picks of 100 are enough, 4 are not), ordered by the caller's key and by
\* descending picks among equal keys; a champion above the floor is left out
\* only when five that stand no lower are returned.
C16_TopPickBanChamps ==
  calc.op = "done" =>
    LET top == calc.top
        Eligible(c) == 20 * c.picks >= calc.num_games
    IN
    /\ calc.num_games = NumGames
    /\ Len(top) <= 5
    /\ \A i \in 1..Len(top) : top[i] \in Range(calc.champs) /\ Eligible(top[i])
    /\ \A i, j \in 1..Len(top) : i < j => top[i].id # top[j].id
    /\ \A i \in 1..(Len(top) - 1) : NotBehind(top[i], top[i + 1], calc.descending)
    /\ \A k \in 1..Len(calc.champs) :
         (Eligible(calc.champs[k]) /\ calc.champs[k] \notin Range(top)) =>
           /\ Len(top) = 5
           /\ NotBehind(top[5], calc.champs[k], calc.descending)
    /\ \A k \in 1..Len(calc.champs) :
         (calc.champs[k].picks = 4) => calc.champs[k] \notin Range(top)

\* C16 happens: six champions, one of them picked 4 times (dropped), the
\* other five returned, one with exactly 5 picks among them, the order decided
\* by the key first and by picks among equal keys.
C16_Witness ==
  /\ calc.op = "done" /\ calc.descending
  /\ Len(calc.champs) = 6 /\ Len(calc.top) = 5
  /\ \E k \in 1..6 : calc.champs[k].picks = 4
  /\ \E i \in 1..5 : calc.top[i].picks = 5
  /\ calc.top[1].key = 1 /\ calc.top[1].picks = 5
  /\ calc.top[2].key = 0 /\ calc.top[2].picks = 6
  /\ calc.top[3].key = 0 /\ calc.top[3].picks = 5

\* ------------------------------------------------------------------ claims: reloads

\* C17: two reloads in a row against unchanged upstream publish identical
\* snapshots: teams with their players, leagues, brackets with standings,
\* matches, schedule order and game counters.
C17_ReloadIsIdempotent ==
  (calc.op = "serving" /\ Len(calc.snaps) >= 2) => calc.snaps[1] = calc.snaps[2]

\* C19: the schedule of every published snapshot is ordered by time
\* ascending, matches of equal time keep the order of assembly, and a match
\* no time was attached to carries the far-future time and stands after every
\* match that has one.
C19_ScheduleOrderedUnscheduledLast ==
  calc.op = "serving" =>
    \A n \in 1..Len(calc.snaps) :
      LET sch == calc.snaps[n].schedule
          asm == calc.snaps[n].matches
          At(m) == CHOOSE k \in 1..Len(asm) : asm[k] = m
      IN
      /\ \A i, j \in 1..Len(sch) : i < j =>
           /\ MatchTime(sch[i]) <= MatchTime(sch[j])
           /\ MatchTime(sch[i]) = MatchTime(sch[j]) => At(sch[i]) < At(sch[j])
      /\ \A i \in 1..Len(sch) : ~sch[i].scheduled =>
           /\ MatchTime(sch[i]) = ArrowMax
           /\ \A j \in 1..Len(sch) : sch[j].scheduled => j < i

\* C18: whenever IsReady() is true the swap of the initial LoadEsports has
\* happened: the engine holds a published snapshot.
C18_ReadyMeansPublished ==
  IsReady => engine.epoch >= 1

\* ------------------------------------------------------------------ claims: active tournaments

\* C20: _FindActiveTournaments returns exactly the tournaments whose window
\* [startDate, endDate] contains now when there are any, otherwise the one
\* tournament with the most recent start date; whatever the list (empty, or
\* without any startDate), it returns only records of the list.
C20_ActiveOrMostRecent ==
  calc.op = "done" =>
    LET InWindow(t) == t.dated /\ t.startDate <= calc.t_now /\ calc.t_now <= t.endDate
        windowed == SelectSeq(calc.tournaments, InWindow)
    IN
    /\ windowed # <<>> => calc.result = windowed
    /\ (windowed = <<>> /\ \E k \in 1..Len(calc.tournaments) : calc.tournaments[k].dated) =>
         /\ Len(calc.result) = 1
         /\ calc.result[1].dated
         /\ \A k \in 1..Len(calc.tournaments) :
              calc.tournaments[k].dated =>
                calc.tournaments[k].startDate <= calc.result[1].startDate
    /\ \A k \in 1..Len(calc.result) : calc.result[k] \in Range(calc.tournaments)

\* ------------------------------------------------------------------ claims: what LoadData leaves behind

\* C21: after any LoadData call of a provider (the call is over: no reload
\* holds the provider's lock), the provider's teams, brackets and match index
\* hold only objects that this call built, and every match in a bracket's
\* schedule is in the match index.
C21_LoadDataReplacesState ==
  \A p \in Providers :
    (prov[p].gen >= 1 /\ prov[p].lock \notin Reloaders) =>
      /\ prov[p].teams \in {0, prov[p].gen}
      /\ prov[p].matches \in {0, prov[p].gen}
      /\ \A n \in BracketNames(p) :
           /\ prov[p].brackets[n].gen \in {0, prov[p].gen}
           /\ prov[p].brackets[n].schedule \subseteq
                (IF prov[p].matches = 0 THEN {} ELSE {prov[p].matches})

\* ------------------------------------------------------------------ claims: GrumbleProvider.UpdateMatches

\* The season matches whose winner field differs from what it was when the
\* UpdateMatches call started.
GrumbleChanged ==
  {k \in 1..Len(calc.content.matches) :
     calc.content.matches[k].winner # calc.before.matches[k].winner}

\* C22: when a GrumbleProvider.UpdateMatches call is over, teams and
\* standings are what they were, every match is what it was except for the
\* winner of matches that had none, and the call has returned exactly the
\* matches whose winner it set, each once.
C22_GrumbleUpdateSetsWinnersOnly ==
  (calc.op \in {"gUpdated", "gRaised"}) =>
    /\ calc.content.teams = calc.before.teams
    /\ calc.content.standings = calc.before.standings
    /\ Len(calc.content.matches) = Len(calc.before.matches)
    /\ \A k \in 1..Len(calc.content.matches) :
         /\ calc.content.matches[k] =
              [calc.before.matches[k] EXCEPT !.winner = calc.content.matches[k].winner]
         /\ k \in GrumbleChanged => calc.before.matches[k].winner = ""
    /\ Range(calc.returned) = GrumbleChanged
    /\ Len(calc.returned) = Cardinality(GrumbleChanged)

\* ------------------------------------------------------------------ claims: statistics scraping

\* The game _ScrapePickBanData looked at last is one the claim says is
\* tallied: its match has a winner, its league is stats-enabled, and its hash
\* field holds a resolved hash.
LastGameCounts ==
  /\ calc.last.winner # ""
  /\ StatsEnabled(calc.last.league)
  /\ calc.last.hash = "hash"

\* C23: for every game the scraper looks at, the league's total-games counter
\* goes up by exactly one if the game belongs to a match with a winner in a
\* stats-enabled league and has a resolved hash, and otherwise the game
\* changes neither the counter nor the tallied picks.
C23_TalliedIffResolved ==
  calc.last.visited =>
    /\ calc.num_games[calc.last.league] =
         calc.last.num + (IF LastGameCounts THEN 1 ELSE 0)
    /\ ~LastGameCounts => calc.picks[calc.last.league] = calc.last.picks

\* ------------------------------------------------------------------ claims: stat queries

\* C24: between two reloads every stat query gives the same answer each time
\* it is asked, whatever other stat queries ran in between:
\* GetUniqueChampCount and GetTopPickBanChamps have given one answer per region.
C24_StatQueriesReadOnly ==
  \A region \in StatRegions :
    /\ Cardinality(calc.unique[region]) <= 1
    /\ Cardinality(calc.top[region]) <= 1

\* ------------------------------------------------------------------ claims: UpdateEsportsMatches

\* The place of a provider in self._providers.
ProviderIndex(p) == CHOOSE i \in 1..Len(ProviderOrder) : ProviderOrder[i] = p

\* C25: an UpdateEsportsMatches call that has ended has called UpdateMatches
\* on every provider and has returned the providers' lists one after the
\* other in provider order.  (No step of the call assigns a field of the
\* engine: every action of the poll thread leaves `engine` unchanged.)
C25_PollCallsEveryProvider ==
  (poll.pc \in {"done", "raised"}) =>
    /\ poll.pc = "done"
    /\ poll.idx = Len(ProviderOrder)
    /\ \A i, j \in 1..Len(poll.updated) :
         i < j => ProviderIndex(poll.updated[i][1]) <= ProviderIndex(poll.updated[j][1])

\* ------------------------------------------------------------------ claims: winners under polling

\* C26: a match that has a winner when an UpdateMatches call looks at it
\* keeps that winner and is not in the list the call returns, for both
\* providers; RitoProvider.UpdateMatches rewrites the teams of a match only if
\* one of them is 'TBD'.
C26_WinnerIsNeverChanged ==
  /\ (JustPatched /\ calc.last.old.present) =>
       /\ calc.last.old.winner # "" =>
            /\ calc.matches[calc.last.id].winner = calc.last.old.winner
            /\ calc.last.id \notin Range(calc.updated)
       /\ "TBD" \notin {calc.last.old.blue, calc.last.old.red} =>
            /\ calc.matches[calc.last.id].blue = calc.last.old.blue
            /\ calc.matches[calc.last.id].red = calc.last.old.red
  /\ (calc.op \in {"gSeason", "gUpdated", "gRaised"}) =>
       \A k \in 1..Len(calc.before.matches) :
         calc.before.matches[k].winner # "" =>
           /\ calc.content.matches[k].winner = calc.before.matches[k].winner
           /\ k \notin Range(calc.updated)
           /\ k \notin Range(calc.returned)

\* C26 happens: UpdateMatches has looked at a match won by T1 whose raw match
\* upstream now puts the other roster alone in the top group.
C26_Witness ==
  /\ JustPatched
  /\ calc.last.old.present /\ calc.last.old.winner = "T1"
  /\ calc.last.raw.standings /\ calc.last.raw.top = <<"r2">>
  /\ calc.last.raw.input = <<"r1", "r2">>

\* ------------------------------------------------------------------ claims: the published snapshot

\* The schedule lists the values of the match map, each once, and the bracket
\* of every match is a key of the bracket map.
SnapshotConsistent ==
  /\ Range(engine.schedule) = engine.matches
  /\ Len(engine.schedule) = Cardinality(engine.matches)
  /\ \A m \in engine.matches :
       \E b \in engine.brackets : b[1] = m[1] /\ b[2] = MatchBracket(m[1])

\* C27: whenever the engine's fields change, all of them are replaced by the
\* fields of one LoadEsports call's assembly, and the snapshot they form is
\* consistent: the schedule is the values of the match map, each once, and
\* every match's bracket is a key of the bracket map.
C27_SnapshotFromOneAssembly ==
  [][engine' # engine =>
       /\ \E t \in Reloaders :
            /\ reload[t].pc = "swap"
            /\ engine' = [teams |-> reload[t].tmp.teams,
                          schedule |-> engine'.schedule,
                          matches |-> reload[t].tmp.matches,
                          brackets |-> reload[t].tmp.brackets,
                          leagues |-> reload[t].tmp.leagues,
                          stats |-> reload[t].tmp.stats,
                          epoch |-> engine.epoch + 1]
       /\ SnapshotConsistent']_vars

\* C27 happens: two overlapping LoadEsports calls have both swapped, neither
\* has returned yet, and the snapshot holds a match of every provider.
C27_Witness ==
  /\ engine.epoch = 2
  /\ \A p \in Providers : \E m \in engine.matches : m[1] = p
  /\ \A t \in Reloaders : reload[t].pc = "cb"

\* ------------------------------------------------------------------ claims: the providers' locks

\* The threads inside LoadData of provider p (between clearing its state and
\* finishing) or inside its UpdateMatches.
Inside(p) ==
  {t \in Reloaders : reload[t].pc = "fetch" /\ ProviderOrder[reload[t].idx] = p}
    \cup (IF poll.pc = "updFetch" /\ ProviderOrder[poll.idx] = p THEN {"poll"} ELSE {})

\* At most one thread is inside a provider's LoadData or UpdateMatches, and
\* it holds the provider's lock.
Exclusive ==
  \A p \in Providers :
    /\ Cardinality(Inside(p)) <= 1
    /\ \A t \in Inside(p) : prov[p].lock = t

\* C28: LoadData and UpdateMatches calls of one provider never overlap, each
\* runs under the provider's lock, and the brackets / teams accessors of a
\* provider return to a thread only while no other thread is inside that
\* provider's LoadData.
C28_ProviderMutualExclusion ==
  [][/\ Exclusive'
     /\ \A t \in Reloaders :
          (reload[t].pc \in {"asmB", "asmT"} /\ reload'[t] # reload[t]) =>
            Inside(ProviderOrder[reload[t].idx]) \subseteq {t}]_vars

\* C28 happens: a LoadData of one provider and an UpdateMatches of the other
\* run at the same time, while a second reload thread waits for the provider
\* being loaded.
C28_Witness ==
  /\ reload["init"].pc = "fetch" /\ ProviderOrder[reload["init"].idx] = "NA"
  /\ poll.pc = "updFetch" /\ ProviderOrder[poll.idx] = "D1"
  /\ reload["cmd"].pc = "load" /\ ProviderOrder[reload["cmd"].idx] = "NA"

====
